---- MODULE Spec2Model ----
(***************************************************************************)
(* Bloch-sphere / hydrogen-orbital engine of SYSTEM-client-3d/Blender.     *)
(*                                                                         *)
(* Numbers.  Angles are counted in units of pi/4 (PI = 4 units).  A        *)
(* complex number is a 4-tuple <<a,b,c,d>> of integers standing for        *)
(*      (a + b*w + c*w^2 + d*w^3) / 4,      w = e^{i pi/4},  w^4 = -1,      *)
(* which holds exactly every amplitude the gates X,Y,Z,H,S,T,I and the     *)
(* quarter-turn rotations produce from states with theta a multiple of     *)
(* pi/2 and phi a multiple of pi/4, and every density built from them.     *)
(* A Python string that the code slices or parses is a sequence of         *)
(* one-character strings; None is the empty tuple and a present value v    *)
(* is <<v>>.                                                               *)
(***************************************************************************)
EXTENDS Integers, Sequences, FiniteSets, TLC

VARIABLES theta, phi, basis, state_vector, orbital_coeffs, density_cache,
          last, gate_seq, call

vars == <<theta, phi, basis, state_vector, orbital_coeffs, density_cache,
          last, gate_seq, call>>

(***************************************************************************)
(* Bounds of the model.                                                    *)
(***************************************************************************)
\* grid resolutions a caller asks for: 2..MaxResolution
MaxResolution == 2
\* set_state_vector is given unit vectors multiplied by sqrt(2)^k, k in 0..MaxScale
MaxScale == 1
\* quantum numbers tried: -1..MaxQN
MaxQN == 8
\* wavefunction samples psi_i drawn from -MaxPsi..MaxPsi
MaxPsi == 2
\* isosurface thresholds of one extraction: 0..MaxShells
MaxShells == 3
\* samples of one composition: 0..MaxSamples
MaxSamples == 2

(***************************************************************************)
(* Complex arithmetic (numpy complex128, kept exact).                      *)
(***************************************************************************)
PI == 4
TWO_PI == 2 * PI

\* the float nan and the complex nan+nanj: what 0/0 gives, and what every
\* operation on it gives back
NaN == -1000
CNaN == <<NaN, NaN, NaN, NaN>>

CZero == <<0, 0, 0, 0>>
COne == <<4, 0, 0, 0>>
CI == <<0, 0, 4, 0>>
CW == <<0, 4, 0, 0>>
CHalf == <<2, 0, 0, 0>>
CInvSqrt2 == <<0, 2, 0, -2>>

CAdd(x, y) ==
    IF x = CNaN \/ y = CNaN THEN CNaN
    ELSE <<x[1] + y[1], x[2] + y[2], x[3] + y[3], x[4] + y[4]>>
CNeg(x) == IF x = CNaN THEN CNaN ELSE <<-x[1], -x[2], -x[3], -x[4]>>
CScale(k, x) ==
    IF x = CNaN THEN CNaN ELSE <<k * x[1], k * x[2], k * x[3], k * x[4]>>
CConj(x) == IF x = CNaN THEN CNaN ELSE <<x[1], -x[4], -x[3], -x[2]>>

\* the product of the two numerators (a polynomial product modulo w^4 = -1)
CMulRaw(x, y) ==
    << x[1]*y[1] - x[2]*y[4] - x[3]*y[3] - x[4]*y[2],
       x[1]*y[2] + x[2]*y[1] - x[3]*y[4] - x[4]*y[3],
       x[1]*y[3] + x[2]*y[2] + x[3]*y[1] - x[4]*y[4],
       x[1]*y[4] + x[2]*y[3] + x[3]*y[2] + x[4]*y[1] >>

CMul(x, y) ==
    LET r == CMulRaw(x, y)
    IN  IF x = CNaN \/ y = CNaN THEN CNaN
        ELSE <<r[1] \div 4, r[2] \div 4, r[3] \div 4, r[4] \div 4>>

\* x = y * z, without dividing
IsProduct(x, y, z) == CMulRaw(y, z) = CScale(4, x)

\* w^j
CWPow(j) ==
    LET k == j % 8
    IN  CASE k = 0 -> COne
          [] k = 1 -> CW
          [] k = 2 -> CI
          [] k = 3 -> <<0, 0, 0, 4>>
          [] k = 4 -> CNeg(COne)
          [] k = 5 -> CNeg(CW)
          [] k = 6 -> CNeg(CI)
          [] OTHER -> <<0, 0, 0, -4>>

\* np.abs(x) ** 2
AbsSq(x) == CMul(x, CConj(x))

\* a real number (p + q*sqrt(2))/4, sqrt(2) = w - w^3
IsReal(x) == x[3] = 0 /\ x[2] = -x[4]
RealPositive(x) ==
    LET p == x[1]
        q == x[2]
    IN  /\ IsReal(x)
        /\ IF p >= 0 /\ q >= 0 THEN p > 0 \/ q > 0
           ELSE IF p <= 0 /\ q <= 0 THEN FALSE
           ELSE IF p > 0 THEN p * p > 2 * q * q
           ELSE 2 * q * q > p * p

\* sqrt(2)^k for k >= -1
RECURSIVE Sqrt2Pow(_)
Sqrt2Pow(k) ==
    IF k = -1 THEN CInvSqrt2
    ELSE IF k = 0 THEN COne
    ELSE CMul(CScale(2, CInvSqrt2), Sqrt2Pow(k - 1))

\* the non-negative reals of the model: 0 and sqrt(2)^k
Magnitudes == {CZero} \cup {Sqrt2Pow(k) : k \in -1..(MaxScale + 1)}

HasSqrt(x) == \E r \in Magnitudes : IsProduct(x, r, r)
\* np.sqrt of a non-negative real
Sqrt(x) == CHOOSE r \in Magnitudes : IsProduct(x, r, r)

HasAbs(x) == HasSqrt(AbsSq(x))
\* np.abs
Abs(x) == IF x = CNaN THEN CNaN ELSE Sqrt(AbsSq(x))

HasAngle(x) == x = CZero \/ \E j \in -3..4 : RealPositive(CMul(x, CWPow(-j)))
\* np.angle, in (-pi, pi]; np.angle(0) = 0
Angle(x) ==
    IF x = CNaN THEN NaN
    ELSE IF x = CZero THEN 0
    ELSE CHOOSE j \in -3..4 : RealPositive(CMul(x, CWPow(-j)))

\* x / r for a positive real r
HasQuotient(x, r) ==
    \E m \in Magnitudes, j \in 0..7 : IsProduct(x, r, CMul(m, CWPow(j)))
Quotient(x, r) ==
    LET mj == CHOOSE mj \in Magnitudes \X (0..7) :
                  IsProduct(x, r, CMul(mj[1], CWPow(mj[2])))
    IN  CMul(mj[1], CWPow(mj[2]))

\* np.cos, np.sin at a multiple of pi/4
Cos(a) ==
    LET k == a % 8
    IN  CASE a = NaN -> CNaN
          [] k = 0 -> COne
          [] k \in {1, 7} -> CInvSqrt2
          [] k \in {2, 6} -> CZero
          [] k \in {3, 5} -> CNeg(CInvSqrt2)
          [] OTHER -> CNeg(COne)
Sin(a) == IF a = NaN THEN CNaN ELSE Cos(a - 2)
\* theta / 2
Half(a) == IF a = NaN THEN NaN ELSE a \div 2
\* np.exp(1j * a)
ExpI(a) == CAdd(Cos(a), CMul(CI, Sin(a)))

\* np.arccos on [0, 1]
HasArcCos(r) == r \in {COne, CInvSqrt2, CZero}
ArcCos(r) ==
    CASE r = COne -> 0
      [] r = CInvSqrt2 -> 1
      [] OTHER -> 2

\* the angles a state of the model may hold: theta/2 must be a multiple of pi/4
ThetaGrid == {0, 2, 4}
PhiGrid == 0..(TWO_PI - 1)

(***************************************************************************)
(* orbital_coefficients.py: Bloch angles <-> state vector.                 *)
(***************************************************************************)
\* bloch_to_state_vector with the whole polar angle where the half belongs
bloch_to_state_vector_full_angle(t, p) == <<Cos(t), CMul(ExpI(p), Sin(t))>>

bloch_to_state_vector(t, p) ==
    LET alpha == Cos(Half(t))
        beta == CMul(ExpI(p), Sin(Half(t)))
    IN  <<alpha, beta>>

\* the norm state_vector_to_bloch and set_state_vector divide by
Norm(v) == Sqrt(CAdd(AbsSq(v[1]), AbsSq(v[2])))
\* a vector whose norm is 0 or nan: dividing by the norm gives nan
Degenerate(v) == v[1] = CNaN \/ v[2] = CNaN \/ v = <<CZero, CZero>>
HasNorm(v) ==
    \/ Degenerate(v)
    \/ /\ HasSqrt(CAdd(AbsSq(v[1]), AbsSq(v[2])))
       /\ HasQuotient(v[1], Norm(v))
       /\ HasQuotient(v[2], Norm(v))
Normalized(v) ==
    IF Degenerate(v) THEN <<CNaN, CNaN>>
    ELSE <<Quotient(v[1], Norm(v)), Quotient(v[2], Norm(v))>>

\* the vectors whose angles lie on the model's angle grid
OnGrid(v) ==
    \/ Degenerate(v)
    \/ /\ HasNorm(v)
       /\ HasAbs(Normalized(v)[1])
       /\ HasArcCos(Abs(Normalized(v)[1]))
       /\ HasAngle(Normalized(v)[1])
       /\ HasAngle(Normalized(v)[2])

\* state_vector_to_bloch without "phi = phi % (2 * np.pi)"
state_vector_to_bloch_unwrapped(v) ==
    LET alpha == Normalized(v)[1]
        beta == Normalized(v)[2]
    IN  IF Degenerate(v) THEN <<NaN, NaN>>
        ELSE <<2 * ArcCos(Abs(alpha)), Angle(beta) - Angle(alpha)>>

state_vector_to_bloch(v) ==
    LET alpha == Normalized(v)[1]
        beta == Normalized(v)[2]
        t == 2 * ArcCos(Abs(alpha))
        p == Angle(beta) - Angle(alpha)
    IN  IF Degenerate(v) THEN <<NaN, NaN>>
        ELSE <<t, p % TWO_PI>>

(***************************************************************************)
(* Orbital coefficient maps.  A dict is the sequence of its items in       *)
(* insertion order, each item <<(n,l,m), coefficient>>.                    *)
(***************************************************************************)
Raised(e) == [err |-> e, val |-> <<>>]
Returned(v) == [err |-> "none", val |-> v]

\* bloch_to_orbital_coeffs with the 'sp' map as its last branch
bloch_to_orbital_coeffs_defaulting(t, p, b) ==
    LET state_vec == bloch_to_state_vector(t, p)
        c_px == CMul(Sin(Half(t)), Cos(p))
        c_py == CMul(Sin(Half(t)), Sin(p))
    IN  IF b = "pp" THEN
            Returned(<< <<(<<2, 1, 1>>), c_px>>, <<(<<2, 1, -1>>), c_py>>,
                        <<(<<2, 1, 0>>), Cos(Half(t))>> >>)
        ELSE IF b = "sd" THEN
            Returned(<< <<(<<1, 0, 0>>), state_vec[1]>>, <<(<<3, 2, 0>>), state_vec[2]>> >>)
        ELSE Returned(<< <<(<<1, 0, 0>>), state_vec[1]>>, <<(<<2, 0, 0>>), state_vec[2]>> >>)

bloch_to_orbital_coeffs(t, p, b) ==
    LET state_vec == bloch_to_state_vector(t, p)
        alpha == state_vec[1]
        beta == state_vec[2]
        cos_half == Cos(Half(t))
        sin_half == Sin(Half(t))
        c_px == CMul(sin_half, Cos(p))
        c_py == CMul(sin_half, Sin(p))
        c_pz == cos_half
    IN  IF b = "sp" THEN
            Returned(<< <<(<<1, 0, 0>>), alpha>>, <<(<<2, 0, 0>>), beta>> >>)
        ELSE IF b = "pp" THEN
            Returned(<< <<(<<2, 1, 1>>), c_px>>, <<(<<2, 1, -1>>), c_py>>,
                        <<(<<2, 1, 0>>), c_pz>> >>)
        ELSE IF b = "sd" THEN
            Returned(<< <<(<<1, 0, 0>>), alpha>>, <<(<<3, 2, 0>>), beta>> >>)
        ELSE Raised("ValueError")

\* total_prob of analyze_superposition
RECURSIVE TotalProb(_)
TotalProb(coeffs) ==
    IF coeffs = <<>> THEN CZero
    ELSE CAdd(AbsSq(Head(coeffs)[2]), TotalProb(Tail(coeffs)))

analyze_superposition(t, p, b) ==
    LET coeffs == bloch_to_orbital_coeffs(t, p, b)
        c == coeffs.val
    IN  IF coeffs.err # "none" THEN Raised(coeffs.err)
        ELSE Returned(
            [theta |-> t, phi |-> p, basis |-> b, coefficients |-> c,
             probabilities |-> [i \in 1..Len(c) |-> <<c[i][1], AbsSq(c[i][2])>>],
             phases |-> [i \in 1..Len(c) |-> <<c[i][1], Angle(c[i][2])>>],
             coherence |-> IF Len(c) = 2 THEN <<CMul(c[1][2], CConj(c[2][2]))>>
                           ELSE <<>>,
             normalized |-> TotalProb(c) = COne])

\* BlochOrbitalState(theta, phi, basis): the fields of the new object, or the
\* error set_bloch_state raises out of __init__
BlochOrbitalState(t, p, b) ==
    LET coeffs == bloch_to_orbital_coeffs(t, p, b)
    IN  IF coeffs.err # "none" THEN Raised(coeffs.err)
        ELSE Returned([theta |-> t, phi |-> p, basis |-> b,
                       state_vector |-> bloch_to_state_vector(t, p),
                       orbital_coeffs |-> coeffs.val, density_cache |-> <<>>])

(***************************************************************************)
(* quantum_constants.py: gate matrices.                                    *)
(***************************************************************************)
\* the phase flip where the bit flip belongs
PhaseFlipAsX == << <<COne, CZero>>, <<CZero, CNeg(COne)>> >>

PAULI_X == << <<CZero, COne>>, <<COne, CZero>> >>
PAULI_Y == << <<CZero, CNeg(CI)>>, <<CI, CZero>> >>
PAULI_Z == << <<COne, CZero>>, <<CZero, CNeg(COne)>> >>
IDENTITY == << <<COne, CZero>>, <<CZero, COne>> >>
HADAMARD == << <<CInvSqrt2, CInvSqrt2>>, <<CInvSqrt2, CNeg(CInvSqrt2)>> >>
\* the inverse of S where S belongs
S_GATE_inverse == << <<COne, CZero>>, <<CZero, CNeg(CI)>> >>
S_GATE == << <<COne, CZero>>, <<CZero, CI>> >>
T_GATE == << <<COne, CZero>>, <<CZero, ExpI(1)>> >>

rotation_x(a) ==
    << <<Cos(a \div 2), CNeg(CMul(CI, Sin(a \div 2)))>>,
       <<CNeg(CMul(CI, Sin(a \div 2))), Cos(a \div 2)>> >>
rotation_y(a) ==
    << <<Cos(a \div 2), CNeg(Sin(a \div 2))>>,
       <<Sin(a \div 2), Cos(a \div 2)>> >>
rotation_z(a) ==
    << <<ExpI(-(a \div 2)), CZero>>,
       <<CZero, ExpI(a \div 2)>> >>

QUANTUM_GATES ==
    ( <<"X">> :> PAULI_X ) @@ ( <<"Y">> :> PAULI_Y ) @@ ( <<"Z">> :> PAULI_Z ) @@
    ( <<"H">> :> HADAMARD ) @@ ( <<"S">> :> S_GATE ) @@ ( <<"T">> :> T_GATE ) @@
    ( <<"I">> :> IDENTITY )

\* gate_matrix @ state_vector
MatVec(m, v) ==
    << CAdd(CMul(m[1][1], v[1]), CMul(m[1][2], v[2])),
       CAdd(CMul(m[2][1], v[1]), CMul(m[2][2], v[2])) >>

(***************************************************************************)
(* Gate identifiers.  A gate is a string or an explicit 2x2 matrix.  The   *)
(* numeric literal of a rotation is written in the model's angle unit.     *)
(***************************************************************************)
StrGate(s) == [is_str |-> TRUE, str |-> s, matrix |-> <<>>]
MatrixGate(m) == [is_str |-> FALSE, str |-> <<>>, matrix |-> m]

Digits == <<"0", "1", "2", "3", "4", "5", "6", "7", "8", "9">>
IsDigit(c) == \E i \in 1..Len(Digits) : Digits[i] = c
DigitValue(c) == (CHOOSE i \in 1..Len(Digits) : Digits[i] = c) - 1

RECURSIVE DigitsValue(_)
DigitsValue(s) ==
    IF s = <<>> THEN 0
    ELSE 10 * DigitsValue(SubSeq(s, 1, Len(s) - 1)) + DigitValue(s[Len(s)])

AllDigits(s) == s # <<>> /\ \A i \in 1..Len(s) : IsDigit(s[i])

\* float(s): a signed run of digits parses, anything else raises ValueError
ParseFloat(s) ==
    IF AllDigits(s) THEN Returned(DigitsValue(s))
    ELSE IF s # <<>> /\ s[1] = "-" /\ AllDigits(Tail(s))
         THEN Returned(-DigitsValue(Tail(s)))
    ELSE Raised("ValueError")

\* str(angle) in an f-string
RECURSIVE FormatNat(_)
FormatNat(k) ==
    IF k < 10 THEN <<Digits[k + 1]>>
    ELSE FormatNat(k \div 10) \o <<Digits[(k % 10) + 1]>>
FormatNumber(k) == IF k < 0 THEN <<"-">> \o FormatNat(-k) ELSE FormatNat(k)

\* str.upper() on an axis name
Upper(s) ==
    [i \in 1..Len(s) |->
        CASE s[i] = "x" -> "X"
          [] s[i] = "y" -> "Y"
          [] s[i] = "z" -> "Z"
          [] OTHER -> s[i]]

\* gate.startswith(prefix)
StartsWith(s, prefix) ==
    Len(s) >= Len(prefix) /\ SubSeq(s, 1, Len(prefix)) = prefix
\* gate[3:-1]
Slice3ToLast(s) == SubSeq(s, 4, Len(s) - 1)

\* the matrix apply_gate_to_state resolves a gate to, or the error it raises
GateMatrix(gate) ==
    IF gate.is_str THEN
        IF StartsWith(gate.str, <<"R", "X", "(">>) THEN
            LET angle == ParseFloat(Slice3ToLast(gate.str))
            IN  IF angle.err # "none" THEN Raised(angle.err)
                ELSE Returned(rotation_x(angle.val))
        ELSE IF StartsWith(gate.str, <<"R", "Y", "(">>) THEN
            LET angle == ParseFloat(Slice3ToLast(gate.str))
            IN  IF angle.err # "none" THEN Raised(angle.err)
                ELSE Returned(rotation_y(angle.val))
        ELSE IF StartsWith(gate.str, <<"R", "Z", "(">>) THEN
            LET angle == ParseFloat(Slice3ToLast(gate.str))
            IN  IF angle.err # "none" THEN Raised(angle.err)
                ELSE Returned(rotation_z(angle.val))
        ELSE IF gate.str \in DOMAIN QUANTUM_GATES
             THEN Returned(QUANTUM_GATES[gate.str])
        ELSE Raised("ValueError")
    ELSE Returned(gate.matrix)

apply_gate_to_state(v, gate) ==
    LET gate_matrix == GateMatrix(gate)
    IN  IF gate_matrix.err # "none" THEN Raised(gate_matrix.err)
        ELSE Returned(MatVec(gate_matrix.val, v))

\* the gate takes the state to one whose angles the model can hold
GateStaysOnGrid(t, p, gate) ==
    LET new_state == apply_gate_to_state(bloch_to_state_vector(t, p), gate)
    IN  new_state.err = "none" => OnGrid(new_state.val)

apply_gate_to_bloch(t, p, gate) ==
    LET state == bloch_to_state_vector(t, p)
        new_state == apply_gate_to_state(state, gate)
    IN  IF new_state.err # "none" THEN Raised(new_state.err)
        ELSE Returned(state_vector_to_bloch(new_state.val))

(***************************************************************************)
(* quantum_constants.py: validation and lookup tables.                     *)
(***************************************************************************)
MAX_PRINCIPAL_QUANTUM_NUMBER == 7
DEFAULT_GRID_RESOLUTION == 64

Abs1(k) == IF k < 0 THEN -k ELSE k

\* validate_quantum_numbers without its check against the largest shell
validate_without_shell_limit(n, l, m) ==
    IF n < 1 THEN Raised("ValueError")
    ELSE IF l < 0 \/ l >= n THEN Raised("ValueError")
    ELSE IF Abs1(m) > l THEN Raised("ValueError")
    ELSE Returned(TRUE)

validate_quantum_numbers(n, l, m) ==
    IF n < 1 THEN Raised("ValueError")
    ELSE IF l < 0 \/ l >= n THEN Raised("ValueError")
    ELSE IF Abs1(m) > l THEN Raised("ValueError")
    ELSE IF n > MAX_PRINCIPAL_QUANTUM_NUMBER THEN Raised("ValueError")
    ELSE Returned(TRUE)

ORBITAL_EXTENT == [n \in 1..7 |-> 10 * n]
get_orbital_extent(n) ==
    IF n \in DOMAIN ORBITAL_EXTENT THEN ORBITAL_EXTENT[n] ELSE n * 10

(***************************************************************************)
(* Wavefunction samples and the density.  A point is given by the values   *)
(* the real-form wavefunctions take there: a function from (n,l,m) to an   *)
(* integer sample.  Every call keeps the order of its validation and       *)
(* evaluation events.                                                      *)
(***************************************************************************)
hydrogen_orbital(n, l, m, pt) ==
    LET checked == validate_quantum_numbers(n, l, m)
    IN  IF checked.err # "none"
        THEN [err |-> checked.err, val |-> 0,
              trace |-> << <<"validate", <<n, l, m>> >> >>]
        ELSE [err |-> "none", val |-> pt[<<n, l, m>>],
              trace |-> << <<"validate", <<n, l, m>> >>,
                           <<"evaluate", <<n, l, m>> >> >>]

\* the loop of orbital_coeffs_to_density over coeffs.items()
RECURSIVE DensityLoop(_, _, _, _)
DensityLoop(items, pt, psi_total, trace) ==
    IF items = <<>>
    THEN [err |-> "none", val |-> AbsSq(psi_total), trace |-> trace]
    ELSE LET nlm == Head(items)[1]
             coeff == Head(items)[2]
             psi_i == hydrogen_orbital(nlm[1], nlm[2], nlm[3], pt)
         IN  IF psi_i.err # "none"
             THEN [err |-> psi_i.err, val |-> CZero, trace |-> trace \o psi_i.trace]
             ELSE DensityLoop(Tail(items), pt,
                              CAdd(psi_total, CScale(psi_i.val, coeff)),
                              trace \o psi_i.trace)

\* the same loop adding up densities where the code adds up amplitudes
RECURSIVE DensitySumLoop(_, _, _, _)
DensitySumLoop(items, pt, density, trace) ==
    IF items = <<>>
    THEN [err |-> "none", val |-> density, trace |-> trace]
    ELSE LET nlm == Head(items)[1]
             coeff == Head(items)[2]
             psi_i == hydrogen_orbital(nlm[1], nlm[2], nlm[3], pt)
         IN  IF psi_i.err # "none"
             THEN [err |-> psi_i.err, val |-> CZero, trace |-> trace \o psi_i.trace]
             ELSE DensitySumLoop(Tail(items), pt,
                                 CAdd(density, AbsSq(CScale(psi_i.val, coeff))),
                                 trace \o psi_i.trace)
sum_of_densities(coeffs, pt) == DensitySumLoop(coeffs, pt, CZero, <<>>)

orbital_coeffs_to_density(coeffs, pt) == DensityLoop(coeffs, pt, CZero, <<>>)

\* the six orbitals the three bases use
BasisOrbitals ==
    {<<1, 0, 0>>, <<2, 0, 0>>, <<3, 2, 0>>, <<2, 1, 1>>, <<2, 1, -1>>, <<2, 1, 0>>}

\* Sign and relative size of the real-form wavefunctions at three lattice
\* points (on +x, on +z, on the diagonal x=y=z), beyond the node of 2s:
\* psi(2,1,1) ~ -x, psi(2,1,0) ~ z, psi(3,2,0) ~ 3z^2 - r^2, and the m < 0
\* real form of spherical_harmonic cancels to 0.
ProbeOnX ==
    ( <<1, 0, 0>> :> 1 ) @@ ( <<2, 0, 0>> :> -1 ) @@ ( <<3, 2, 0>> :> -1 ) @@
    ( <<2, 1, 1>> :> -1 ) @@ ( <<2, 1, -1>> :> 0 ) @@ ( <<2, 1, 0>> :> 0 )
ProbeOnZ ==
    ( <<1, 0, 0>> :> 1 ) @@ ( <<2, 0, 0>> :> -1 ) @@ ( <<3, 2, 0>> :> 2 ) @@
    ( <<2, 1, 1>> :> 0 ) @@ ( <<2, 1, -1>> :> 0 ) @@ ( <<2, 1, 0>> :> 1 )
ProbeOnDiagonal ==
    ( <<1, 0, 0>> :> 1 ) @@ ( <<2, 0, 0>> :> -1 ) @@ ( <<3, 2, 0>> :> 0 ) @@
    ( <<2, 1, 1>> :> -1 ) @@ ( <<2, 1, -1>> :> 0 ) @@ ( <<2, 1, 0>> :> 1 )
LatticeProbes == <<ProbeOnX, ProbeOnZ, ProbeOnDiagonal>>

\* (x_grid, y_grid, z_grid, density_grid): the lattice is linspace(-extent,
\* extent, resolution) on each axis, the density is sampled at the probes
DensityGrid(coeffs, resolution, extent) ==
    [resolution |-> resolution,
     extent |-> extent,
     density |-> [i \in 1..Len(LatticeProbes) |->
                     orbital_coeffs_to_density(coeffs, LatticeProbes[i]).val]]

\* max(nlm[0] for nlm in coeffs.keys())
RECURSIVE MaxN(_)
MaxN(coeffs) ==
    IF Len(coeffs) = 1 THEN coeffs[1][1][1]
    ELSE LET rest == MaxN(Tail(coeffs))
         IN  IF coeffs[1][1][1] > rest THEN coeffs[1][1][1] ELSE rest

(***************************************************************************)
(* quantum_constants.py: named pure states.                                *)
(***************************************************************************)
\* the table with the angles of |+i> and |-i> exchanged
BLOCH_PURE_STATES_exchanged ==
    ( "|0>" :> <<0, 0>> ) @@ ( "|1>" :> <<PI, 0>> ) @@
    ( "|+>" :> <<PI \div 2, 0>> ) @@ ( "|->" :> <<PI \div 2, PI>> ) @@
    ( "|+i>" :> <<PI \div 2, (3 * PI) \div 2>> ) @@
    ( "|-i>" :> <<PI \div 2, PI \div 2>> )

BLOCH_PURE_STATES ==
    ( "|0>" :> <<0, 0>> ) @@ ( "|1>" :> <<PI, 0>> ) @@
    ( "|+>" :> <<PI \div 2, 0>> ) @@ ( "|->" :> <<PI \div 2, PI>> ) @@
    ( "|+i>" :> <<PI \div 2, PI \div 2>> ) @@
    ( "|-i>" :> <<PI \div 2, (3 * PI) \div 2>> )

(***************************************************************************)
(* Inputs the callers of the model draw from.                              *)
(***************************************************************************)
Bases == {"sp", "pp", "sd"}
BasisInputs == Bases
StateNameInputs == DOMAIN BLOCH_PURE_STATES \cup {"|2>"}

NamedGateInputs == {StrGate(<<c>>) : c \in {"X", "Y", "Z", "H", "S", "T", "I"}}
RotationGateInputs ==
    {StrGate(<<"R", a, "(">> \o FormatNumber(k) \o <<")">>) :
        a \in {"X", "Y", "Z"}, k \in {2}}
\* identifiers outside the gate vocabulary
BadGateInputs ==
    {StrGate(s) : s \in { <<"Q">>, <<"R", "X", "(">>,
                          <<"R", "X", "(", "2">>, <<"R", "Z", "(", "x", ")">>,
                          <<"R", "Y", "(", "2", "x">> }}
MatrixGateInputs == {MatrixGate(HADAMARD), MatrixGate(PAULI_Y)}
GateInputs ==
    NamedGateInputs \cup RotationGateInputs \cup BadGateInputs \cup MatrixGateInputs

AxisInputs == {<<"x">>, <<"Z">>, <<"q">>}
AngleInputs == {-2, 4}

\* unit vectors of the grid, times a global phase, times a positive scale
GlobalPhases == {0, 3}
StateVectorInputs ==
    {<<CMul(CMul(Sqrt2Pow(k), CWPow(g)), bloch_to_state_vector(t, p)[1]),
       CMul(CMul(Sqrt2Pow(k), CWPow(g)), bloch_to_state_vector(t, p)[2])>> :
        k \in 0..MaxScale, g \in GlobalPhases, t \in ThetaGrid, p \in {5}}
    \cup {<<CZero, CZero>>}

\* the six named states as unit vectors, each times a global phase
CardinalVectorInputs ==
    {<<CMul(CWPow(g), bloch_to_state_vector(BLOCH_PURE_STATES[name][1],
                                            BLOCH_PURE_STATES[name][2])[1]),
       CMul(CWPow(g), bloch_to_state_vector(BLOCH_PURE_STATES[name][1],
                                            BLOCH_PURE_STATES[name][2])[2])>> :
        g \in GlobalPhases, name \in DOMAIN BLOCH_PURE_STATES}

ResolutionInputs == {<<>>} \cup {<<r>> : r \in 2..MaxResolution}
ExtentInputs == {<<>>, <<20>>}
\* a request gives the resolution, the extent, or neither
GridRequests ==
    {<<r, <<>> >> : r \in ResolutionInputs} \cup {<< <<>>, e>> : e \in ExtentInputs}

\* R{axis.upper()}({angle}), the identifier apply_rotation builds
RotationName(axis, angle) ==
    <<"R">> \o Upper(axis) \o <<"(">> \o FormatNumber(angle) \o <<")">>

AllGates ==
    GateInputs \cup
    {StrGate(RotationName(axis, angle)) : axis \in AxisInputs, angle \in AngleInputs}

(***************************************************************************)
(* The conversions above, evaluated once for every input of the model.     *)
(***************************************************************************)
\* the angles a state can hold: the grid, and nan
ThetaStates == ThetaGrid \cup {NaN}
PhiStates(t) == IF t = NaN THEN {NaN} ELSE PhiGrid

GateOutcome ==
    [gate \in AllGates |-> [t \in ThetaStates |-> [p \in PhiStates(t) |->
        [on_grid |-> GateStaysOnGrid(t, p, gate),
         angles |-> IF GateStaysOnGrid(t, p, gate)
                    THEN apply_gate_to_bloch(t, p, gate)
                    ELSE Raised("off grid")]]]]

NormalizedOutcome ==
    [v \in StateVectorInputs \cup CardinalVectorInputs |->
        [has_norm |-> HasNorm(v),
         normalized |-> Normalized(v),
         angles |-> state_vector_to_bloch(Normalized(v))]]

CoeffsOutcome ==
    [t \in ThetaStates |-> [p \in PhiStates(t) |-> [b \in BasisInputs |->
        bloch_to_orbital_coeffs(t, p, b)]]]

StateVectorOutcome ==
    [t \in ThetaStates |-> [p \in PhiStates(t) |-> bloch_to_state_vector(t, p)]]

(***************************************************************************)
(* What the last call was, what it was given and what it gave back.        *)
(***************************************************************************)
\* last.arg is the identifier the call was given: a gate, or a state name
NoGate == StrGate(<<>>)
NameArg(state_name) == StrGate(<<state_name>>)
Last(op, err) ==
    [op |-> op, err |-> err, arg |-> NoGate, resolution |-> <<>>,
     extent |-> <<>>, use_cache |-> FALSE, ret |-> <<>>,
     had_cache |-> density_cache # <<>>]

Idle == [fn |-> "idle", args |-> <<>>, err |-> "none", out |-> <<>>, trace |-> <<>>]

(***************************************************************************)
(* bloch_orbital_mapper.py: BlochOrbitalState.                             *)
(***************************************************************************)
\* set_bloch_state without its last line: the cache survives the mutation
SetBlochStateKeepingCache(t, p, op, gate) ==
    LET coeffs == CoeffsOutcome[t][p][basis]
    IN  /\ theta' = t
        /\ phi' = p
        /\ state_vector' = StateVectorOutcome[t][p]
        /\ IF coeffs.err = "none"
           THEN orbital_coeffs' = coeffs.val
           ELSE UNCHANGED orbital_coeffs
        /\ last' = [Last(op, coeffs.err) EXCEPT !.arg = gate]
        /\ UNCHANGED <<basis, density_cache, call>>

\* the assignments of set_bloch_state(t, p); bloch_to_orbital_coeffs raises
\* on an unknown basis after the angles and the state vector are stored
SetBlochStateEffect(t, p, op, gate) ==
    LET coeffs == CoeffsOutcome[t][p][basis]
    IN  /\ theta' = t
        /\ phi' = p
        /\ state_vector' = StateVectorOutcome[t][p]
        /\ IF coeffs.err = "none"
           THEN /\ orbital_coeffs' = coeffs.val
                /\ density_cache' = <<>>
           ELSE UNCHANGED <<orbital_coeffs, density_cache>>
        /\ last' = [Last(op, coeffs.err) EXCEPT !.arg = gate]
        /\ UNCHANGED <<basis, call>>

\* a call that raises before it assigns anything
Fails(op, gate) ==
    /\ last' = [Last(op, "ValueError") EXCEPT !.arg = gate]
    /\ UNCHANGED <<theta, phi, basis, state_vector, orbital_coeffs,
                   density_cache, call>>

set_bloch_state(t, p) ==
    /\ SetBlochStateEffect(t, p, "set_bloch_state", NoGate)
    /\ gate_seq' = 0

\* set_state_vector without its last line: the cache survives
set_state_vector_keeping_cache(v) ==
    \E outcome \in {NormalizedOutcome[v]} :
        LET angles == outcome.angles
            coeffs == CoeffsOutcome[angles[1]][angles[2]][basis]
        IN  /\ outcome.has_norm
            /\ state_vector' = outcome.normalized
            /\ theta' = angles[1]
            /\ phi' = angles[2]
            /\ IF coeffs.err = "none"
               THEN orbital_coeffs' = coeffs.val
               ELSE UNCHANGED orbital_coeffs
            /\ last' = Last("set_state_vector", coeffs.err)
            /\ gate_seq' = 0
            /\ UNCHANGED <<basis, density_cache, call>>

set_state_vector(v) ==
    \E outcome \in {NormalizedOutcome[v]} :
        LET normalized == outcome.normalized
            angles == outcome.angles
            coeffs == CoeffsOutcome[angles[1]][angles[2]][basis]
        IN  /\ outcome.has_norm
            /\ state_vector' = normalized
            /\ theta' = angles[1]
            /\ phi' = angles[2]
            /\ IF coeffs.err = "none"
               THEN /\ orbital_coeffs' = coeffs.val
                    /\ density_cache' = <<>>
               ELSE UNCHANGED <<orbital_coeffs, density_cache>>
            /\ last' = Last("set_state_vector", coeffs.err)
            /\ gate_seq' = 0
            /\ UNCHANGED <<basis, call>>

set_pure_state(state_name) ==
    IF state_name \notin DOMAIN BLOCH_PURE_STATES
    THEN /\ Fails("set_pure_state", NameArg(state_name))
         /\ gate_seq' = 0
    ELSE /\ SetBlochStateEffect(BLOCH_PURE_STATES[state_name][1],
                                BLOCH_PURE_STATES[state_name][2],
                                "set_pure_state", NameArg(state_name))
         /\ gate_seq' = IF state_name = "|0>" /\ basis \in Bases THEN 1 ELSE 0

\* create_state(state_name, basis): the caller's object is the new one once
\* the constructor and set_pure_state have both returned
create_state(state_name, b) ==
    IF BlochOrbitalState(0, 0, b).err # "none" \/ state_name \notin DOMAIN BLOCH_PURE_STATES
    THEN /\ Fails("create_state", NameArg(state_name))
         /\ gate_seq' = 0
    ELSE LET t == BLOCH_PURE_STATES[state_name][1]
             p == BLOCH_PURE_STATES[state_name][2]
         IN  /\ basis' = b
             /\ theta' = t
             /\ phi' = p
             /\ state_vector' = StateVectorOutcome[t][p]
             /\ orbital_coeffs' = CoeffsOutcome[t][p][b].val
             /\ density_cache' = <<>>
             /\ last' = [Last("create_state", "none") EXCEPT !.arg = NameArg(state_name)]
             /\ gate_seq' = IF state_name = "|0>" THEN 1 ELSE 0
             /\ UNCHANGED call

\* the scenario "|0>, then H, then X, then H" as far as the calls have followed it
NextGateSeq(gate) ==
    IF gate_seq = 1 /\ gate = StrGate(<<"H">>) THEN 2
    ELSE IF gate_seq = 2 /\ gate = StrGate(<<"X">>) THEN 3
    ELSE IF gate_seq = 3 /\ gate = StrGate(<<"H">>) THEN 4
    ELSE 0

ApplyGate(gate, op) ==
    \E outcome \in {GateOutcome[gate][theta][phi]} :
        LET new_angles == outcome.angles
        IN  /\ outcome.on_grid
            /\ IF new_angles.err # "none"
               THEN /\ Fails(op, gate)
                    /\ gate_seq' = 0
               ELSE /\ SetBlochStateEffect(new_angles.val[1], new_angles.val[2], op, gate)
                    /\ gate_seq' = IF basis \in Bases THEN NextGateSeq(gate) ELSE 0

apply_gate(gate) == ApplyGate(gate, "apply_gate")

apply_rotation(axis, angle) ==
    LET gate_name == RotationName(axis, angle)
    IN  ApplyGate(StrGate(gate_name), "apply_rotation")

calculate_density_grid(resolution, extent, use_cache) ==
    IF use_cache /\ density_cache # <<>>
    THEN /\ last' = [Last("calculate_density_grid", "none") EXCEPT
                        !.resolution = resolution, !.extent = extent,
                        !.use_cache = use_cache, !.ret = density_cache]
         /\ UNCHANGED <<theta, phi, basis, state_vector, orbital_coeffs,
                        density_cache, gate_seq, call>>
    ELSE LET res == IF resolution = <<>> THEN DEFAULT_GRID_RESOLUTION
                    ELSE resolution[1]
             ext == IF extent = <<>> THEN get_orbital_extent(MaxN(orbital_coeffs))
                    ELSE extent[1]
             grid == DensityGrid(orbital_coeffs, res, ext)
         IN  /\ density_cache' = <<grid>>
             /\ last' = [Last("calculate_density_grid", "none") EXCEPT
                            !.resolution = resolution, !.extent = extent,
                            !.use_cache = use_cache, !.ret = <<grid>>]
             /\ UNCHANGED <<theta, phi, basis, state_vector, orbital_coeffs,
                            gate_seq, call>>

\* state.basis = b: basis is a plain attribute
assign_basis(b) ==
    /\ basis' = b
    /\ last' = Last("assign_basis", "none")
    /\ gate_seq' = 0
    /\ UNCHANGED <<theta, phi, state_vector, orbital_coeffs, density_cache, call>>

\* BlochOrbitalState(theta, phi, basis)
Init ==
    \E t \in ThetaGrid, p \in PhiGrid, b \in Bases :
        /\ basis = b
        /\ theta = t
        /\ phi = p
        /\ state_vector = StateVectorOutcome[t][p]
        /\ orbital_coeffs = CoeffsOutcome[t][p][b].val
        /\ density_cache = <<>>
        /\ last = [op |-> "__init__", err |-> "none", arg |-> NoGate,
                   resolution |-> <<>>, extent |-> <<>>, use_cache |-> FALSE,
                   ret |-> <<>>, had_cache |-> FALSE]
        /\ gate_seq = 0
        /\ call = Idle

Next ==
    \/ \E t \in ThetaGrid, p \in {0, 3, 4, 6} : set_bloch_state(t, p)
    \/ \E v \in StateVectorInputs : set_state_vector(v)
    \/ \E name \in StateNameInputs : set_pure_state(name)
    \/ \E gate \in GateInputs : apply_gate(gate)
    \/ \E axis \in AxisInputs, angle \in AngleInputs : apply_rotation(axis, angle)
    \/ \E q \in GridRequests, u \in BOOLEAN :
          calculate_density_grid(q[1], q[2], u)
    \/ \E b \in BasisInputs : assign_basis(b)
    \/ \E name \in {"|0>", "|-i>", "|2>"}, b \in {"pp", "xx"} : create_state(name, b)

Spec == Init /\ [][Next]_vars

(***************************************************************************)
(* bloch_orbital_mapper.py: the queries of BlochOrbitalState.  A query     *)
(* leaves in last.ret what it returned: <<v>>, or <<>> for None.           *)
(***************************************************************************)
\* the magnitudes a coefficient can have: those of the amplitudes, and the
\* 1/2 of the 'pp' map at odd multiples of pi/4
CoefficientMagnitudes == Magnitudes \cup {CHalf}
\* np.abs(coeff)
AbsCoeff(x) ==
    IF x = CNaN THEN CNaN
    ELSE CHOOSE r \in CoefficientMagnitudes : IsProduct(AbsSq(x), r, r)
\* a > b on floats: False as soon as one side is nan
GreaterThan(a, b) ==
    a # CNaN /\ b # CNaN /\ RealPositive(CAdd(a, CNeg(b)))

\* the loop of get_dominant_orbital over self._orbital_coeffs.items()
RECURSIVE DominantLoop(_, _, _)
DominantLoop(items, max_coeff, dominant) ==
    IF items = <<>> THEN dominant
    ELSE LET mag == AbsCoeff(Head(items)[2])
         IN  IF GreaterThan(mag, max_coeff)
             THEN DominantLoop(Tail(items), mag, <<Head(items)>>)
             ELSE DominantLoop(Tail(items), max_coeff, dominant)

\* what a query that returned ret leaves in last
Answer(op, ret) == [Last(op, "none") EXCEPT !.ret = ret]

get_dominant_orbital ==
    /\ last' = Answer("get_dominant_orbital", DominantLoop(orbital_coeffs, CZero, <<>>))
    /\ UNCHANGED <<theta, phi, basis, state_vector, orbital_coeffs,
                   density_cache, gate_seq, call>>

\* the comparisons of _get_state_label on the values of the model: the
\* magnitudes are 0, 1/sqrt(2) and 1, the phases are multiples of pi/4, and a
\* comparison with nan is False
Above099(r) == r = COne
Within001(a, b) == a # CNaN /\ a = b
Within01(a, b) == a # NaN /\ a = b
GenericLabel == "a|0> + b|1>"

\* _get_state_label
get_state_label(v) ==
    LET alpha == v[1]
        beta == v[2]
        phase == IF Angle(beta) = NaN \/ Angle(alpha) = NaN THEN NaN
                 ELSE Angle(beta) - Angle(alpha)
    IN  IF Above099(Abs(alpha)) THEN "|0>"
        ELSE IF Above099(Abs(beta)) THEN "|1>"
        ELSE IF Within001(Abs(alpha), Abs(beta)) THEN
            IF Within01(phase, 0) THEN "|+>"
            ELSE IF Within01(phase, PI) THEN "|->"
            ELSE IF Within01(phase, PI \div 2) THEN "|+i>"
            ELSE IF Within01(phase, -(PI \div 2)) THEN "|-i>"
            ELSE GenericLabel
        ELSE GenericLabel

\* the label of the stored vector
LabelOutcome ==
    [v \in {StateVectorOutcome[t][p] : t \in ThetaGrid, p \in PhiGrid}
           \cup {NormalizedOutcome[w].normalized :
                    w \in CardinalVectorInputs \cup {<<CZero, CZero>>}} |->
        get_state_label(v)]

StateLabel ==
    /\ last' = Answer("_get_state_label", <<LabelOutcome[state_vector]>>)
    /\ UNCHANGED <<theta, phi, basis, state_vector, orbital_coeffs,
                   density_cache, gate_seq, call>>

\* the probes that lie in a plane through the origin
SliceProbes(plane) ==
    CASE plane = "xy" -> <<ProbeOnX>>
      [] plane = "xz" -> <<ProbeOnX, ProbeOnZ>>
      [] plane = "yz" -> <<ProbeOnZ>>
Planes == {"xy", "xz", "yz"}
PlaneInputs == Planes \cup {"zx", "XY"}

\* (c1, c2, density) of calculate_slice at position 0.0
Slice(coeffs, plane, resolution, extent) ==
    [plane |-> plane, resolution |-> resolution, extent |-> extent,
     density |-> [i \in 1..Len(SliceProbes(plane)) |->
                     orbital_coeffs_to_density(coeffs, SliceProbes(plane)[i]).val]]

\* calculate_slice that goes through calculate_density_grid and its cache
calculate_slice_through_cache(plane, resolution, extent) ==
    LET res == IF resolution = <<>> THEN DEFAULT_GRID_RESOLUTION ELSE resolution[1]
        ext == IF extent = <<>> THEN get_orbital_extent(MaxN(orbital_coeffs))
               ELSE extent[1]
    IN  IF plane \notin Planes
        THEN /\ last' = [Last("calculate_slice", "ValueError") EXCEPT
                            !.arg = NameArg(plane)]
             /\ UNCHANGED <<theta, phi, basis, state_vector, orbital_coeffs,
                            density_cache, gate_seq, call>>
        ELSE /\ density_cache' = <<DensityGrid(orbital_coeffs, res, ext)>>
             /\ last' = [Answer("calculate_slice",
                                <<Slice(orbital_coeffs, plane, res, ext)>>) EXCEPT
                            !.arg = NameArg(plane), !.resolution = resolution,
                            !.extent = extent]
             /\ UNCHANGED <<theta, phi, basis, state_vector, orbital_coeffs,
                            gate_seq, call>>

calculate_slice(plane, resolution, extent) ==
    LET res == IF resolution = <<>> THEN DEFAULT_GRID_RESOLUTION ELSE resolution[1]
        ext == IF extent = <<>> THEN get_orbital_extent(MaxN(orbital_coeffs))
               ELSE extent[1]
    IN  /\ last' = IF plane \notin Planes
                   THEN [Last("calculate_slice", "ValueError") EXCEPT
                            !.arg = NameArg(plane)]
                   ELSE [Answer("calculate_slice",
                                <<Slice(orbital_coeffs, plane, res, ext)>>) EXCEPT
                            !.arg = NameArg(plane), !.resolution = resolution,
                            !.extent = extent]
        /\ UNCHANGED <<theta, phi, basis, state_vector, orbital_coeffs,
                       density_cache, gate_seq, call>>

\* get_bloch_vector, from the angles t, p
get_bloch_vector(t, p) ==
    <<CMul(Sin(t), Cos(p)), CMul(Sin(t), Sin(p)), Cos(t)>>

\* np.max(density): nan as soon as one sample is nan
RECURSIVE MaxDensity(_)
MaxDensity(density) ==
    IF Len(density) = 1 THEN density[1]
    ELSE LET rest == MaxDensity(Tail(density))
         IN  IF density[1] = CNaN \/ rest = CNaN THEN CNaN
             ELSE IF GreaterThan(density[1], rest) THEN density[1] ELSE rest

\* the default fractions, in hundredths
DefaultFractions == <<1, 5, 10>>

\* get_isosurface_values(): calls calculate_density_grid() when the cache is
\* empty; returns frac * max_density for each fraction
get_isosurface_values ==
    LET grid == IF density_cache # <<>> THEN density_cache[1]
                ELSE DensityGrid(orbital_coeffs, DEFAULT_GRID_RESOLUTION,
                                 get_orbital_extent(MaxN(orbital_coeffs)))
    IN  /\ density_cache' = <<grid>>
        /\ last' = Answer("get_isosurface_values",
                          <<[i \in 1..Len(DefaultFractions) |->
                                <<DefaultFractions[i], MaxDensity(grid.density)>>]>>)
        /\ UNCHANGED <<theta, phi, basis, state_vector, orbital_coeffs,
                       gate_seq, call>>

NextQueries ==
    \/ \E t \in ThetaGrid, p \in {0, 1, 4} : set_bloch_state(t, p)
    \/ \E v \in CardinalVectorInputs \cup {<<CZero, CZero>>} : set_state_vector(v)
    \/ \E name \in StateNameInputs : set_pure_state(name)
    \/ \E gate \in NamedGateInputs : apply_gate(gate)
    \/ \E axis \in {<<"x">>}, angle \in {4} : apply_rotation(axis, angle)
    \/ \E b \in BasisInputs : assign_basis(b)
    \/ \E r \in {<<>>, <<2>>}, u \in BOOLEAN : calculate_density_grid(r, <<>>, u)
    \/ get_isosurface_values
    \/ \E plane \in PlaneInputs, r \in {<<>>, <<2>>} : calculate_slice(plane, r, <<>>)
    \/ get_dominant_orbital
    \/ StateLabel

SpecQueries == Init /\ [][NextQueries]_vars

(***************************************************************************)
(* hydrogen_wavefunctions.py: the functions that validate before they      *)
(* evaluate.  The value of a grid is its samples at the lattice probes.    *)
(***************************************************************************)
radial_wavefunction(n, l, pt) ==
    LET checked == validate_quantum_numbers(n, l, 0)
    IN  IF checked.err # "none"
        THEN [err |-> checked.err, val |-> 0,
              trace |-> << <<"validate", <<n, l, 0>> >> >>]
        ELSE [err |-> "none", val |-> pt[<<n, l, 0>>],
              trace |-> << <<"validate", <<n, l, 0>> >>,
                           <<"evaluate", <<n, l, 0>> >> >>]

calculate_orbital_grid(n, l, m) ==
    LET checked == validate_quantum_numbers(n, l, m)
        psi == [i \in 1..Len(LatticeProbes) |-> hydrogen_orbital(n, l, m, LatticeProbes[i])]
    IN  IF checked.err # "none"
        THEN [err |-> checked.err, val |-> <<>>,
              trace |-> << <<"validate", <<n, l, m>> >> >>]
        ELSE [err |-> "none", val |-> [i \in 1..Len(LatticeProbes) |-> psi[i].val],
              trace |-> << <<"validate", <<n, l, m>> >> >> \o psi[1].trace]

\* hydrogen_wavefunctions.calculate_density_grid(n, l, m): probability_density
\* of the orbital grid
orbital_density_grid(n, l, m) ==
    LET grid == calculate_orbital_grid(n, l, m)
    IN  IF grid.err # "none" THEN grid
        ELSE [grid EXCEPT !.val = [i \in 1..Len(grid.val) |-> grid.val[i] * grid.val[i]]]

(***************************************************************************)
(* hydrogen_wavefunctions.py evaluated at points.  A radial value is       *)
(* coef * N_nl * e^(-decay): coef and decay are rationals <<p, q>> and     *)
(* N_nl is norm_factor of (n, l).  An angular value is a number of the     *)
(* complex ring times a positive unit: 1/sqrt(4 pi) for l = 0,             *)
(* sqrt(3/(8 pi)) for l = 1, and for l >= 2 the real factor                *)
(* K_l|m| P_l^|m|(cos theta) that Y_l^m and Y_l^-m share.                  *)
(***************************************************************************)
RECURSIVE GCD(_, _)
GCD(a, b) == IF b = 0 THEN a ELSE GCD(b, a % b)
Rat(p, q) ==
    LET g == GCD(Abs1(p), Abs1(q))
        s == IF q < 0 THEN -1 ELSE 1
    IN  <<(s * p) \div g, (s * q) \div g>>
RatAdd(x, y) == Rat(x[1] * y[2] + y[1] * x[2], x[2] * y[2])
RatSub(x, y) == Rat(x[1] * y[2] - y[1] * x[2], x[2] * y[2])
RatMul(x, y) == Rat(x[1] * y[1], x[2] * y[2])
RECURSIVE RatPow(_, _)
RatPow(x, k) == IF k = 0 THEN <<1, 1>> ELSE RatMul(x, RatPow(x, k - 1))

\* special.eval_genlaguerre(n, alpha, x), by the three-term recurrence
RECURSIVE generalized_laguerre(_, _, _)
generalized_laguerre(k, alpha, x) ==
    IF k = 0 THEN <<1, 1>>
    ELSE IF k = 1 THEN RatSub(<<1 + alpha, 1>>, x)
    ELSE RatMul(<<1, k>>,
                RatSub(RatMul(RatSub(<<2 * k - 1 + alpha, 1>>, x),
                              generalized_laguerre(k - 1, alpha, x)),
                       RatMul(<<k - 1 + alpha, 1>>,
                              generalized_laguerre(k - 2, alpha, x))))

RadialZero == [coef |-> <<0, 1>>, norm |-> <<>>, decay |-> <<0, 1>>]
\* norm_factor: sqrt((2/n)^3 (n-l-1)! / (2n (n+l)!))
norm_factor(n, l) == [coef |-> <<1, 1>>, norm |-> <<n, l>>, decay |-> <<0, 1>>]

\* radial_wavefunction with the value 0.0 at r = 0 for every l
R_nl_vanishing(n, l, r) ==
    LET rho == Rat(2 * r, n)
        exp_term == RatMul(rho, <<1, 2>>)
        power_term == RatPow(rho, l)
        laguerre_term == generalized_laguerre(n - l - 1, 2 * l + 1, rho)
        coef == RatMul(power_term, laguerre_term)
    IN  IF r > 0
        THEN IF coef[1] = 0 THEN RadialZero
             ELSE [coef |-> coef, norm |-> <<n, l>>, decay |-> exp_term]
        ELSE RadialZero

\* one entry of R_nl: r is never a Python scalar after np.asarray, so the
\* entry comes from np.where(r > 0, R_nl, 0.0 if l > 0 else norm_factor)
R_nl(n, l, r) ==
    LET rho == Rat(2 * r, n)
        exp_term == RatMul(rho, <<1, 2>>)
        power_term == RatPow(rho, l)
        laguerre_term == generalized_laguerre(n - l - 1, 2 * l + 1, rho)
        coef == RatMul(power_term, laguerre_term)
    IN  IF r > 0
        THEN IF coef[1] = 0 THEN RadialZero
             ELSE [coef |-> coef, norm |-> <<n, l>>, decay |-> exp_term]
        ELSE IF l > 0 THEN RadialZero ELSE norm_factor(n, l)

\* radial_wavefunction(n, l, r) for r a scalar (one entry) or an array
radial_wavefunction_at(n, l, r) ==
    LET checked == validate_quantum_numbers(n, l, 0)
    IN  IF checked.err # "none"
        THEN [err |-> checked.err, val |-> <<>>, trace |-> <<>>]
        ELSE [err |-> "none", val |-> [i \in 1..Len(r) |-> R_nl(n, l, r[i])],
              trace |-> <<>>]

CSqrt2 == <<0, 4, 0, -4>>
CRe(x) == <<x[1], (x[2] - x[4]) \div 2, 0, (x[4] - x[2]) \div 2>>
MinusOnePow(m) == IF m % 2 = 0 THEN 1 ELSE -1
AngularUnit(l, m, pol) == IF l <= 1 THEN <<l>> ELSE <<l, Abs1(m), pol>>

\* special.sph_harm(m, l, azimuth, polar), Condon-Shortley phase included
sph_harm(m, l, az, pol) ==
    [unit |-> AngularUnit(l, m, pol),
     val |-> IF l = 0 THEN COne
             ELSE IF l = 1 THEN
                 CASE m = 0 -> CMul(CSqrt2, Cos(pol))
                   [] m = 1 -> CNeg(CMul(Sin(pol), ExpI(az)))
                   [] m = -1 -> CMul(Sin(pol), ExpI(-az))
             ELSE IF m >= 0 THEN ExpI(m * az)
             ELSE CScale(MinusOnePow(m), ExpI(m * az))]

\* spherical_harmonic(l, m, theta, phi, real_form=True)
spherical_harmonic(l, m, t, p) ==
    LET Y_lm == sph_harm(m, l, p, t)
        Y_other == sph_harm(-m, l, p, t)
        Y_real ==
            IF m > 0
            THEN CMul(CAdd(Y_lm.val, CScale(MinusOnePow(m), CConj(Y_other.val))),
                      CInvSqrt2)
            ELSE CMul(CAdd(Y_lm.val,
                           CNeg(CScale(MinusOnePow(m), CConj(Y_other.val)))),
                      CMul(CNeg(CI), CInvSqrt2))
    IN  IF m # 0 THEN [unit |-> Y_lm.unit, val |-> CRe(Y_real)] ELSE Y_lm

\* the points used: the origin and points on the six half-axes
Origin == <<0, 0, 0>>
AxisPoints(r) ==
    {<<r, 0, 0>>, <<-r, 0, 0>>, <<0, r, 0>>, <<0, -r, 0>>, <<0, 0, r>>, <<0, 0, -r>>}

\* cartesian_to_spherical with r = sqrt(x^2 + y^2)
cartesian_to_spherical_planar(x, y, z) ==
    LET r == Abs1(x) + Abs1(y)
        t == IF Abs1(x) + Abs1(y) + Abs1(z) = 0 \/ z = 0 THEN PI \div 2
             ELSE IF z > 0 THEN 0 ELSE PI
        arctan2 == IF y = 0 THEN (IF x >= 0 THEN 0 ELSE PI)
                   ELSE IF y > 0 THEN PI \div 2 ELSE -(PI \div 2)
    IN  <<r, t, IF arctan2 < 0 THEN arctan2 + TWO_PI ELSE arctan2>>

\* cartesian_to_spherical at an axis point or the origin: there
\* sqrt(x^2 + y^2 + z^2) = |x| + |y| + |z|; z / max(r, 1e-10) is 0 at the
\* origin and -1, 0 or 1 elsewhere
cartesian_to_spherical(x, y, z) ==
    LET r == Abs1(x) + Abs1(y) + Abs1(z)
        t == IF r = 0 \/ z = 0 THEN PI \div 2
             ELSE IF z > 0 THEN 0 ELSE PI
        arctan2 == IF y = 0 THEN (IF x >= 0 THEN 0 ELSE PI)
                   ELSE IF y > 0 THEN PI \div 2 ELSE -(PI \div 2)
    IN  <<r, t, IF arctan2 < 0 THEN arctan2 + TWO_PI ELSE arctan2>>

PsiZero == [R |-> RadialZero, Y |-> [unit |-> <<>>, val |-> CZero]]
\* psi = R_nl * Y_lm
Times(R, Y) ==
    IF R.coef[1] = 0 \/ Y.val = CZero THEN PsiZero ELSE [R |-> R, Y |-> Y]

\* hydrogen_orbital(n, l, m, x, y, z, real_form=True)
hydrogen_orbital_at(n, l, m, pt) ==
    LET checked == validate_quantum_numbers(n, l, m)
        sph == cartesian_to_spherical(pt[1], pt[2], pt[3])
    IN  IF checked.err # "none"
        THEN [err |-> checked.err, val |-> <<>>, trace |-> <<>>]
        ELSE [err |-> "none",
              val |-> Times(R_nl(n, l, sph[1]),
                            spherical_harmonic(l, m, sph[2], sph[3])),
              trace |-> <<>>]

(***************************************************************************)
(* Calls of the pure functions, each on inputs drawn from bounded sets.    *)
(***************************************************************************)
QNInputs == -1..MaxQN
PsiValues == -1..MaxPsi

InvalidKeyInputs == {<<2, 2, 0>>, <<0, 0, 0>>, <<1, 0, 1>>, <<8, 0, 0>>}
ValidKeyInputs == {<<1, 0, 0>>, <<2, 0, 0>>, <<2, 1, 1>>}
KeyInputs == ValidKeyInputs \cup InvalidKeyInputs
CoeffInputs == {COne, CI, CNeg(CInvSqrt2), CHalf}

\* coefficient maps: one or two items with distinct keys, and the maps the
\* three bases produce
CoeffMapInputs ==
    {<< <<k, c>> >> : k \in KeyInputs, c \in CoeffInputs}
    \cup {m \in {<< <<k1, c1>>, <<k2, c2>> >> :
                    k1 \in KeyInputs, k2 \in KeyInputs,
                    c1 \in CoeffInputs, c2 \in {COne, CNeg(CInvSqrt2)}} :
            m[1][1] # m[2][1]}
    \cup {CoeffsOutcome[t][p][b].val : t \in ThetaGrid, p \in {0, 1, 4}, b \in Bases}

IsValidKey(k) == validate_quantum_numbers(k[1], k[2], k[3]).err = "none"
KeysOf(coeffs) == {coeffs[i][1] : i \in 1..Len(coeffs)}
\* the points of a call: every assignment of samples to the map's valid orbitals
PointInputs(coeffs) == [{k \in KeysOf(coeffs) : IsValidKey(k)} -> PsiValues]

Called(fn, args, result) ==
    [fn |-> fn, args |-> args, err |-> result.err, out |-> result.val,
     trace |-> result.trace]

\* a call is made once, on a fresh interpreter: none of these functions keeps
\* state between calls
MachineIdle ==
    /\ call = Idle
    /\ UNCHANGED <<theta, phi, basis, state_vector, orbital_coeffs,
                   density_cache, last, gate_seq>>

CallValidate(n, l, m) ==
    /\ MachineIdle
    /\ call' = Called("validate_quantum_numbers", <<n, l, m>>,
                      [validate_quantum_numbers(n, l, m) EXCEPT !.val = <<@>>]
                          @@ [trace |-> <<>>])

CallRoundTrip(t, p) ==
    /\ MachineIdle
    /\ call' = Called("round_trip", <<t, p>>,
                      Returned(state_vector_to_bloch(bloch_to_state_vector(t, p)))
                          @@ [trace |-> <<>>])

CallDensity(coeffs, pt) ==
    /\ MachineIdle
    /\ call' = Called("orbital_coeffs_to_density", <<coeffs, pt>>,
                      orbital_coeffs_to_density(coeffs, pt))

CallHydrogenOrbital(k, pt) ==
    /\ MachineIdle
    /\ call' = Called("hydrogen_orbital", << << <<k, COne>> >>, pt>>,
                      hydrogen_orbital(k[1], k[2], k[3], pt))

CallRadialWavefunction(k, pt) ==
    /\ MachineIdle
    /\ call' = Called("radial_wavefunction", << << <<k, COne>> >>, pt>>,
                      radial_wavefunction(k[1], k[2], pt))

CallOrbitalGrid(k) ==
    /\ MachineIdle
    /\ call' = Called("calculate_orbital_grid", << << <<k, COne>> >>, <<>> >>,
                      calculate_orbital_grid(k[1], k[2], k[3]))

CallDensityGrid(k) ==
    /\ MachineIdle
    /\ call' = Called("calculate_density_grid", << << <<k, COne>> >>, <<>> >>,
                      orbital_density_grid(k[1], k[2], k[3]))

\* orbitals evaluated at the origin: every valid (n, l, m) up to the
\* largest shell; away from it: the shells 1 and 2
ValidKeys == {k \in (1..MAX_PRINCIPAL_QUANTUM_NUMBER) \X (0..6) \X (-6..6) : IsValidKey(k)}
EvaluationInputs ==
    {<<k, Origin>> : k \in ValidKeys \cup InvalidKeyInputs}
    \cup {<<k, pt>> : k \in {q \in ValidKeys : q[1] <= 2},
                      pt \in AxisPoints(5) \cup AxisPoints(10)}
\* r of radial_wavefunction: a scalar or an array, with zero entries
RadialInputs ==
    {<<n, l, r>> : n \in 0..(MAX_PRINCIPAL_QUANTUM_NUMBER + 1), l \in 0..6,
                   r \in {[scalar |-> TRUE, at |-> <<0>>],
                          [scalar |-> FALSE, at |-> <<0, 0>>]}}
    \cup {<<n, l, r>> : n \in 1..2, l \in 0..1,
                        r \in {[scalar |-> TRUE, at |-> <<5>>],
                               [scalar |-> FALSE, at |-> <<0, 5, 0>>],
                               [scalar |-> FALSE, at |-> <<10, 0>>]}}

CallHydrogenOrbitalAt(k, pt) ==
    /\ MachineIdle
    /\ call' = Called("hydrogen_orbital(x, y, z)", <<k, pt>>,
                      hydrogen_orbital_at(k[1], k[2], k[3], pt))

CallRadialWavefunctionAt(n, l, r) ==
    /\ MachineIdle
    /\ call' = Called("radial_wavefunction(r)", <<n, l, r>>,
                      radial_wavefunction_at(n, l, r.at))

(***************************************************************************)
(* hydrogen_orbital_meshes.py: multi-shell extraction.  The marching-cubes *)
(* step and the host's mesh construction are outside the repository: per   *)
(* threshold the extraction step returns a surface, returns no vertices or *)
(* no faces, or raises ValueError.  Blender is taken to be available.      *)
(***************************************************************************)
IsosurfaceOutcomes == {"surface", "no_verts", "no_faces", "ValueError"}

\* the loop that stops at the first threshold without a surface
RECURSIVE MeshLoopStopping(_, _, _)
MeshLoopStopping(outcomes, i, objects) ==
    IF i > Len(outcomes) THEN objects
    ELSE IF outcomes[i] # "surface" THEN objects
    ELSE MeshLoopStopping(outcomes, i + 1,
                          Append(objects, [iso |-> i - 1, level |-> i]))

\* for i, iso_frac in enumerate(iso_values): one object per surface, named
\* "{name}_iso{i}"
RECURSIVE MeshLoop(_, _, _)
MeshLoop(outcomes, i, objects) ==
    IF i > Len(outcomes) THEN objects
    ELSE IF outcomes[i] = "ValueError" THEN MeshLoop(outcomes, i + 1, objects)
    ELSE IF outcomes[i] \in {"no_verts", "no_faces"}
         THEN MeshLoop(outcomes, i + 1, objects)
    ELSE MeshLoop(outcomes, i + 1, Append(objects, [iso |-> i - 1, level |-> i]))

create_orbital_mesh(n, l, m, outcomes) ==
    LET grid == orbital_density_grid(n, l, m)
    IN  IF grid.err # "none" THEN Raised(grid.err)
        ELSE Returned(MeshLoop(outcomes, 1, <<>>))

create_bloch_state_mesh(t, p, b, outcomes) ==
    LET state == BlochOrbitalState(t, p, b)
    IN  IF state.err # "none" THEN Raised(state.err)
        ELSE Returned(MeshLoop(outcomes, 1, <<>>))

RECURSIVE OutcomeLists(_)
OutcomeLists(k) ==
    IF k = 0 THEN {<<>>}
    ELSE LET shorter == OutcomeLists(k - 1)
         IN  shorter \cup {Append(o, x) : o \in {q \in shorter : Len(q) = k - 1},
                                          x \in IsosurfaceOutcomes}
OutcomeInputs == OutcomeLists(MaxShells)

CallCreateOrbitalMesh(k, outcomes) ==
    /\ MachineIdle
    /\ call' = Called("create_orbital_mesh", <<k, outcomes>>,
                      create_orbital_mesh(k[1], k[2], k[3], outcomes) @@ [trace |-> <<>>])

CallCreateBlochStateMesh(t, p, b, outcomes) ==
    /\ MachineIdle
    /\ call' = Called("create_bloch_state_mesh", <<<<t, p, b>>, outcomes>>,
                      create_bloch_state_mesh(t, p, b, outcomes) @@ [trace |-> <<>>])

\* basis arguments, known and unknown
BasisArguments == Bases \cup {"xx", "SP", "s", ""}

CallBlochToOrbitalCoeffs(t, p, b) ==
    /\ MachineIdle
    /\ call' = Called("bloch_to_orbital_coeffs", <<t, p, b>>,
                      bloch_to_orbital_coeffs(t, p, b) @@ [trace |-> <<>>])

CallConstructor(t, p, b) ==
    /\ MachineIdle
    /\ call' = Called("BlochOrbitalState", <<t, p, b>>,
                      BlochOrbitalState(t, p, b) @@ [trace |-> <<>>])

CallAnalyzeSuperposition(t, p, b) ==
    /\ MachineIdle
    /\ call' = Called("analyze_superposition", <<t, p, b>>,
                      analyze_superposition(t, p, b) @@ [trace |-> <<>>])

(***************************************************************************)
(* quantum_constants.py: colours.  An RGBA colour is given in tenths.      *)
(***************************************************************************)
ORBITAL_LETTERS ==
    ( 0 :> "s" ) @@ ( 1 :> "p" ) @@ ( 2 :> "d" ) @@ ( 3 :> "f" ) @@
    ( 4 :> "g" ) @@ ( 5 :> "h" ) @@ ( 6 :> "i" )
ORBITAL_COLORS ==
    ( "s" :> <<2, 6, 10, 7>> ) @@ ( "p" :> <<10, 5, 2, 7>> ) @@
    ( "d" :> <<2, 10, 4, 7>> ) @@ ( "f" :> <<8, 2, 10, 7>> ) @@
    ( "g" :> <<10, 10, 2, 7>> ) @@ ( "h" :> <<2, 10, 10, 7>> ) @@
    ( "i" :> <<10, 2, 6, 7>> )
PHASE_POSITIVE_COLOR == <<10, 3, 3, 7>>
PHASE_NEGATIVE_COLOR == <<3, 3, 10, 7>>
NeutralGray == <<5, 5, 5, 7>>

\* d.get(k, default)
DictGet(d, k, default) == IF k \in DOMAIN d THEN d[k] ELSE default

get_orbital_color(l, phase) ==
    IF phase # <<>>
    THEN IF phase[1] >= 0 THEN PHASE_POSITIVE_COLOR ELSE PHASE_NEGATIVE_COLOR
    ELSE LET letter == DictGet(ORBITAL_LETTERS, l, "s")
         IN  DictGet(ORBITAL_COLORS, letter, NeutralGray)

CallGetOrbitalColor(l, phase) ==
    /\ MachineIdle
    /\ call' = Called("get_orbital_color", <<l, phase>>,
                      Returned(get_orbital_color(l, phase)) @@ [trace |-> <<>>])

(***************************************************************************)
(* orbital_coefficients.py: gates on coefficient maps.                     *)
(***************************************************************************)
\* coeffs.get(k, default)
CoeffGet(coeffs, k, default) ==
    IF \E i \in 1..Len(coeffs) : coeffs[i][1] = k
    THEN coeffs[CHOOSE i \in 1..Len(coeffs) : coeffs[i][1] = k][2]
    ELSE default

\* np.arctan2(y, x) of two reals: the angle of x + iy, and 0 at (0, 0)
ArcTan2(y, x) == Angle(CAdd(x, CMul(CI, y)))

\* apply_gate_to_orbitals with the arguments of arctan2 exchanged
apply_gate_to_orbitals_exchanged(coeffs, gate, b) ==
    LET c_px == CRe(CoeffGet(coeffs, <<2, 1, 1>>, CZero))
        c_py == CRe(CoeffGet(coeffs, <<2, 1, -1>>, CZero))
        c_pz == CRe(CoeffGet(coeffs, <<2, 1, 0>>, CZero))
        t == 2 * ArcCos(c_pz)
        p == ArcTan2(c_px, c_py)
        alpha == IF b = "sp" THEN CoeffGet(coeffs, <<1, 0, 0>>, CZero)
                 ELSE IF b = "pp" THEN Cos(Half(t))
                 ELSE CoeffGet(coeffs, <<1, 0, 0>>, CZero)
        beta == IF b = "sp" THEN CoeffGet(coeffs, <<2, 0, 0>>, CZero)
                ELSE IF b = "pp" THEN CMul(ExpI(p), Sin(Half(t)))
                ELSE CoeffGet(coeffs, <<3, 2, 0>>, CZero)
        new_state == apply_gate_to_state(<<alpha, beta>>, gate)
    IN  IF new_state.err # "none" THEN Raised(new_state.err)
        ELSE IF b = "pp" THEN
            bloch_to_orbital_coeffs(state_vector_to_bloch(new_state.val)[1],
                                    state_vector_to_bloch(new_state.val)[2], "pp")
        ELSE IF b = "sp" THEN
            Returned(<< <<(<<1, 0, 0>>), new_state.val[1]>>,
                        <<(<<2, 0, 0>>), new_state.val[2]>> >>)
        ELSE Returned(<< <<(<<1, 0, 0>>), new_state.val[1]>>,
                         <<(<<3, 2, 0>>), new_state.val[2]>> >>)

apply_gate_to_orbitals(coeffs, gate, b) ==
    LET c_px == CRe(CoeffGet(coeffs, <<2, 1, 1>>, CZero))
        c_py == CRe(CoeffGet(coeffs, <<2, 1, -1>>, CZero))
        c_pz == CRe(CoeffGet(coeffs, <<2, 1, 0>>, CZero))
        t == 2 * ArcCos(c_pz)
        p == ArcTan2(c_py, c_px)
        alpha == IF b = "sp" THEN CoeffGet(coeffs, <<1, 0, 0>>, CZero)
                 ELSE IF b = "pp" THEN Cos(Half(t))
                 ELSE CoeffGet(coeffs, <<1, 0, 0>>, CZero)
        beta == IF b = "sp" THEN CoeffGet(coeffs, <<2, 0, 0>>, CZero)
                ELSE IF b = "pp" THEN CMul(ExpI(p), Sin(Half(t)))
                ELSE CoeffGet(coeffs, <<3, 2, 0>>, CZero)
        new_state == apply_gate_to_state(<<alpha, beta>>, gate)
    IN  IF new_state.err # "none" THEN Raised(new_state.err)
        ELSE IF b = "pp" THEN
            bloch_to_orbital_coeffs(state_vector_to_bloch(new_state.val)[1],
                                    state_vector_to_bloch(new_state.val)[2], "pp")
        ELSE IF b = "sp" THEN
            Returned(<< <<(<<1, 0, 0>>), new_state.val[1]>>,
                        <<(<<2, 0, 0>>), new_state.val[2]>> >>)
        ELSE Returned(<< <<(<<1, 0, 0>>), new_state.val[1]>>,
                         <<(<<3, 2, 0>>), new_state.val[2]>> >>)

\* the calls: the map of basis `from` at (t, p), then the gate in basis b
OrbitalGateInputs ==
    {<<b, b>> : b \in Bases} \cup {<<"sp", "xx">>, <<"sd", "SP">>, <<"pp", "">>}
OrbitalGates == NamedGateInputs \cup RotationGateInputs \cup {StrGate(<<"Q">>)}

CallApplyGateToOrbitals(t, p, from, b, gate) ==
    /\ MachineIdle
    /\ GateOutcome[gate][t][p].on_grid
    /\ call' = Called("apply_gate_to_orbitals", <<t, p, from, b, gate>>,
                      apply_gate_to_orbitals(CoeffsOutcome[t][p][from].val, gate, b)
                          @@ [trace |-> <<>>])

(***************************************************************************)
(* apply_batching.py: the create_transfer_batches helper it inserts.  A    *)
(* sample is [frequency, count]; amplitude and phase are copied through.   *)
(***************************************************************************)
MAX_PER_FREQUENCY == 5
MAX_TOTAL_PER_BATCH == 30
Min(a, b) == IF a <= b THEN a ELSE b

\* "while remaining > 0" for the sample at the head, then the rest of
\* "for sample in composition", then the final push
RECURSIVE BatchLoop(_, _, _, _, _)
BatchLoop(samples, remaining, batches, current_batch, current_batch_total) ==
    IF samples = <<>>
    THEN IF current_batch # <<>> THEN Append(batches, current_batch) ELSE batches
    ELSE IF remaining = 0
    THEN BatchLoop(Tail(samples),
                   IF Len(samples) > 1 THEN samples[2].count ELSE 0,
                   batches, current_batch, current_batch_total)
    ELSE LET can_add_by_frequency == Min(MAX_PER_FREQUENCY, remaining)
             can_add_by_total == MAX_TOTAL_PER_BATCH - current_batch_total
             to_add == Min(can_add_by_frequency, can_add_by_total)
         IN  IF to_add = 0
             THEN BatchLoop(samples, remaining, Append(batches, current_batch), <<>>, 0)
             ELSE BatchLoop(samples, remaining - to_add, batches,
                            Append(current_batch,
                                   [frequency |-> Head(samples).frequency,
                                    count |-> to_add]),
                            current_batch_total + to_add)

create_transfer_batches(composition) ==
    BatchLoop(composition,
              IF composition # <<>> THEN composition[1].count ELSE 0,
              <<>>, <<>>, 0)

SampleInputs ==
    {[frequency |-> f, count |-> c] : f \in {1, 2}, c \in {0, 3, 5, 12, 31}}
RECURSIVE Compositions(_)
Compositions(k) ==
    IF k = 0 THEN {<<>>}
    ELSE Compositions(k - 1) \cup
         {Append(c, x) : c \in {q \in Compositions(k - 1) : Len(q) = k - 1},
                         x \in SampleInputs}

CallCreateTransferBatches(composition) ==
    /\ MachineIdle
    /\ call' = Called("create_transfer_batches", <<composition>>,
                      Returned(create_transfer_batches(composition)) @@ [trace |-> <<>>])

InitCalls ==
    /\ basis = "sp"
    /\ theta = 0
    /\ phi = 0
    /\ state_vector = StateVectorOutcome[0][0]
    /\ orbital_coeffs = CoeffsOutcome[0][0]["sp"].val
    /\ density_cache = <<>>
    /\ last = [op |-> "__init__", err |-> "none", arg |-> NoGate,
               resolution |-> <<>>, extent |-> <<>>, use_cache |-> FALSE,
               ret |-> <<>>, had_cache |-> FALSE]
    /\ gate_seq = 0
    /\ call = Idle

NextCalls ==
    \/ \E n \in QNInputs, l \in QNInputs, m \in QNInputs : CallValidate(n, l, m)
    \/ \E t \in ThetaGrid, p \in PhiGrid : CallRoundTrip(t, p)
    \/ \E coeffs \in CoeffMapInputs : \E pt \in PointInputs(coeffs) :
          CallDensity(coeffs, pt)
    \/ \E k \in KeyInputs : \E pt \in [{k} \cap ValidKeyInputs -> PsiValues] :
          CallHydrogenOrbital(k, pt)
    \/ \E k \in KeyInputs :
          \E pt \in [{q \in {<<k[1], k[2], 0>>} : IsValidKey(q)} -> PsiValues] :
              CallRadialWavefunction(k, pt)
    \/ \E k \in BasisOrbitals \cup InvalidKeyInputs : CallOrbitalGrid(k)
    \/ \E k \in BasisOrbitals \cup InvalidKeyInputs : CallDensityGrid(k)
    \/ \E t \in ThetaGrid, p \in PhiGrid, b \in BasisArguments :
          CallBlochToOrbitalCoeffs(t, p, b)
    \/ \E t \in ThetaGrid, p \in PhiGrid, b \in BasisArguments :
          CallConstructor(t, p, b)
    \/ \E t \in ThetaGrid, p \in PhiGrid, b \in BasisArguments :
          CallAnalyzeSuperposition(t, p, b)
    \/ \E l \in QNInputs, phase \in {<<>>, <<-1>>, <<0>>} : CallGetOrbitalColor(l, phase)
    \/ \E t \in ThetaGrid, p \in PhiGrid, q \in OrbitalGateInputs, gate \in OrbitalGates :
          CallApplyGateToOrbitals(t, p, q[1], q[2], gate)
    \/ \E composition \in Compositions(MaxSamples) :
          CallCreateTransferBatches(composition)
    \/ \E e \in EvaluationInputs : CallHydrogenOrbitalAt(e[1], e[2])
    \/ \E i \in RadialInputs : CallRadialWavefunctionAt(i[1], i[2], i[3])
    \/ \E k \in {<<1, 0, 0>>, <<2, 2, 0>>}, outcomes \in OutcomeInputs :
          CallCreateOrbitalMesh(k, outcomes)
    \/ \E t \in {PI \div 2}, p \in {0}, b \in {"sp", "xx"}, outcomes \in OutcomeInputs :
          CallCreateBlochStateMesh(t, p, b, outcomes)

SpecCalls == InitCalls /\ [][NextCalls]_vars

(***************************************************************************)
(* Properties of BlochOrbitalState.                                        *)
(***************************************************************************)
Mutators ==
    {"set_bloch_state", "set_state_vector", "set_pure_state", "apply_gate",
     "apply_rotation"}
MutatorSucceeded == last.op \in Mutators /\ last.err = "none"

\* the resolution and extent a query asks for, defaults resolved
RequestedResolution == IF last.resolution = <<>> THEN DEFAULT_GRID_RESOLUTION
                       ELSE last.resolution[1]
RequestedExtent == IF last.extent = <<>> THEN get_orbital_extent(MaxN(orbital_coeffs))
                   ELSE last.extent[1]

\* u and v are the same state: v times a phase factor
SameState(u, v) ==
    \E j \in 0..(TWO_PI - 1) : u = <<CMul(CWPow(j), v[1]), CMul(CWPow(j), v[2])>>

\* C1: the grid calculate_density_grid returns is always one sampled at the
\* requested resolution and extent: a cached grid is returned only when its
\* resolution and extent match the request.
C1_CacheKeyMatchesRequest ==
    last.op = "calculate_density_grid" =>
        /\ last.ret[1].resolution = RequestedResolution
        /\ last.ret[1].extent = RequestedExtent

\* C1: a query is answered from the cache although it asks for another
\* resolution than the cached grid was sampled at.
C1_StaleKeyReturned ==
    /\ last.op = "calculate_density_grid"
    /\ last.had_cache
    /\ last.use_cache
    /\ last.ret[1].resolution # RequestedResolution

\* C2: after every successful mutator the orbital coefficients are those of
\* the new angles and basis, the state vector is the new state, and the
\* density cache is empty; a calculate_density_grid call that follows it
\* samples the new coefficients.
C2_MutatorPost ==
    MutatorSucceeded =>
        /\ density_cache = <<>>
        /\ orbital_coeffs = bloch_to_orbital_coeffs(theta, phi, basis).val
        /\ SameState(state_vector, bloch_to_state_vector(theta, phi))
C2_QueryAfterMutator ==
    (MutatorSucceeded /\ last'.op = "calculate_density_grid") =>
        /\ last'.ret = density_cache'
        /\ density_cache' =
               <<DensityGrid(orbital_coeffs, RequestedResolution', RequestedExtent')>>
C2_MutatorsRecomputeAndInvalidate ==
    [](C2_MutatorPost) /\ [][C2_QueryAfterMutator]_vars

\* C2: a gate has been applied to a state that held a cached grid.
C2_MutatedWithCache ==
    /\ last.op = "apply_gate"
    /\ last.err = "none"
    /\ last.had_cache
    /\ density_cache = <<>>

\* C3: after every successful mutator the stored state vector is exactly
\* bloch_to_state_vector(theta, phi) and the stored coefficients are exactly
\* bloch_to_orbital_coeffs(theta, phi, basis).
C3_DerivedFromAngles ==
    MutatorSucceeded =>
        /\ state_vector = bloch_to_state_vector(theta, phi)
        /\ orbital_coeffs = bloch_to_orbital_coeffs(theta, phi, basis).val

\* C3: set_state_vector has stored a vector that differs from the one its
\* angles give by a global phase.
C3_StoredPhaseDiffers ==
    /\ last.op = "set_state_vector"
    /\ last.err = "none"
    /\ state_vector # bloch_to_state_vector(theta, phi)
    /\ SameState(state_vector, bloch_to_state_vector(theta, phi))

BasisChanged == last.op = "assign_basis"

\* C6: once the basis is assigned the cache is empty and the coefficients
\* are those of the new basis.
C6_BasisChangeInvalidates ==
    BasisChanged =>
        /\ density_cache = <<>>
        /\ orbital_coeffs = bloch_to_orbital_coeffs(theta, phi, basis).val

\* C6: the basis was assigned while a grid was cached, the grid is still
\* there and the coefficients are not those of the basis.
C6_StaleAfterBasisChange ==
    /\ BasisChanged
    /\ density_cache # <<>>
    /\ orbital_coeffs # bloch_to_orbital_coeffs(theta, phi, basis).val

\* a string that names a gate: one of the seven names, or RX(a), RY(a),
\* RZ(a) with a a numeric literal
IsNumericLiteral(s) == ParseFloat(s).err = "none"
IsGateIdentifier(s) ==
    \/ s \in {<<"X">>, <<"Y">>, <<"Z">>, <<"H">>, <<"S">>, <<"T">>, <<"I">>}
    \/ /\ Len(s) >= 5
       /\ SubSeq(s, 1, 3) \in {<<"R", "X", "(">>, <<"R", "Y", "(">>, <<"R", "Z", "(">>}
       /\ s[Len(s)] = ")"
       /\ IsNumericLiteral(SubSeq(s, 4, Len(s) - 1))
GateRejected ==
    /\ last.op = "apply_gate"
    /\ last.arg.is_str
    /\ ~IsGateIdentifier(last.arg.str)

\* C10: apply_gate with a string that is no gate identifier fails.
C10_MalformedGateFails == GateRejected => last.err = "ValueError"

\* C10: a failing apply_gate leaves theta, phi, the state vector, the
\* coefficients and the cache as they were.
C10_FailureLeavesState ==
    [][(last'.op = "apply_gate" /\ last'.err # "none") =>
          UNCHANGED <<theta, phi, state_vector, orbital_coeffs, density_cache>>]_vars

\* C10: a rotation identifier without its closing parenthesis was applied
\* and changed the state.
C10_UnclosedRotationApplied ==
    /\ GateRejected
    /\ last.err = "none"
    /\ last.arg.str[Len(last.arg.str)] # ")"

(***************************************************************************)
(* Properties of the pure functions.                                       *)
(***************************************************************************)
\* C5: away from theta = 0 the round trip gives back (theta, phi) for every
\* phi, theta = pi included; at theta = 0 it gives (0, 0) whatever phi was.
C5_RoundTrip ==
    call.fn = "round_trip" =>
        /\ call.err = "none"
        /\ (call.args[1] # 0 => call.out = call.args)
        /\ (call.args[1] = 0 => call.out = <<0, 0>>)

\* C5: the round trip was taken at the pole theta = pi with phi above pi.
C5_SouthPoleRoundTrip ==
    /\ call.fn = "round_trip"
    /\ call.args[1] = PI
    /\ call.args[2] > PI
    /\ call.out = call.args

\* C5 as stated: the round trip gives back (theta, phi) everywhere, both
\* poles included.
C5_RoundTripEverywhere == call.fn = "round_trip" => call.out = call.args

\* the expansion of |sum_i c_i psi_i|^2: the densities of the orbitals and
\* the interference of every pair
RECURSIVE OwnDensities(_, _)
OwnDensities(coeffs, pt) ==
    IF coeffs = <<>> THEN CZero
    ELSE LET psi == pt[Head(coeffs)[1]]
         IN  CAdd(CScale(psi * psi, AbsSq(Head(coeffs)[2])),
                  OwnDensities(Tail(coeffs), pt))
Interference(ci, cj) == CAdd(CMul(ci, CConj(cj)), CMul(CConj(ci), cj))
RECURSIVE CrossWith(_, _, _)
CrossWith(item, rest, pt) ==
    IF rest = <<>> THEN CZero
    ELSE CAdd(CScale(pt[item[1]] * pt[Head(rest)[1]],
                     Interference(item[2], Head(rest)[2])),
              CrossWith(item, Tail(rest), pt))
RECURSIVE CrossTerms(_, _)
CrossTerms(coeffs, pt) ==
    IF coeffs = <<>> THEN CZero
    ELSE CAdd(CrossWith(Head(coeffs), Tail(coeffs), pt),
              CrossTerms(Tail(coeffs), pt))

DensityReturned == call.fn = "orbital_coeffs_to_density" /\ call.err = "none"

\* C7: the density is that of the summed amplitudes: the orbitals' own
\* densities plus the interference term of every pair of orbitals.
C7_CoherentSum ==
    DensityReturned =>
        call.out = CAdd(OwnDensities(call.args[1], call.args[2]),
                        CrossTerms(call.args[1], call.args[2]))

\* C7: a density of two or more orbitals whose interference does not vanish.
C7_InterferencePresent ==
    /\ DensityReturned
    /\ Len(call.args[1]) >= 2
    /\ CrossTerms(call.args[1], call.args[2]) # CZero
    /\ call.out # OwnDensities(call.args[1], call.args[2])

\* C8: validate_quantum_numbers returns True exactly for 1 <= n <= 7,
\* 0 <= l < n, |m| <= l, and raises ValueError for every other triple.
C8_ValidateExactly ==
    call.fn = "validate_quantum_numbers" =>
        LET n == call.args[1]
            l == call.args[2]
            m == call.args[3]
            valid == /\ 1 <= n /\ n <= 7
                     /\ 0 <= l /\ l < n
                     /\ -l <= m /\ m <= l
        IN  /\ valid => (call.err = "none" /\ call.out = <<TRUE>>)
            /\ ~valid => call.err = "ValueError"

\* C8: a triple that breaks nothing but the limit on n was rejected.
C8_ShellEightRejected ==
    /\ call.fn = "validate_quantum_numbers"
    /\ call.args = <<8, 7, 7>>
    /\ call.err = "ValueError"

ValidatingFunctions ==
    {"radial_wavefunction", "hydrogen_orbital", "calculate_orbital_grid",
     "calculate_density_grid", "orbital_coeffs_to_density"}
\* the triple a function validates: radial_wavefunction has no m
GivenKey(fn, k) == IF fn = "radial_wavefunction" THEN <<k[1], k[2], 0>> ELSE k
HasInvalidKey ==
    \E i \in 1..Len(call.args[1]) : ~IsValidKey(GivenKey(call.fn, call.args[1][i][1]))
Evaluated == \E i \in 1..Len(call.trace) : call.trace[i][1] = "evaluate"

\* C9: a call given an invalid triple raises before it evaluates any
\* wavefunction.
C9_ValidationFirst ==
    (call.fn \in ValidatingFunctions /\ HasInvalidKey) =>
        (call.err = "ValueError" /\ ~Evaluated)

\* C9: orbital_coeffs_to_density raised for an invalid key after it had
\* evaluated an orbital.
C9_EvaluatedBeforeRaise ==
    /\ call.fn = "orbital_coeffs_to_density"
    /\ call.err = "ValueError"
    /\ Evaluated

TakesBasis == {"bloch_to_orbital_coeffs", "BlochOrbitalState", "analyze_superposition"}

\* C11: bloch_to_orbital_coeffs, the constructor and analyze_superposition
\* raise ValueError and return nothing for every basis outside sp, pp, sd,
\* and return for those three.
C11_UnknownBasisFails ==
    call.fn \in TakesBasis =>
        IF call.args[3] \in {"sp", "pp", "sd"}
        THEN call.err = "none" /\ call.out # <<>>
        ELSE call.err = "ValueError" /\ call.out = <<>>

\* C11: the constructor was given a basis in the wrong case and raised.
C11_ConstructorRejected ==
    /\ call.fn = "BlochOrbitalState"
    /\ call.args[3] = "SP"
    /\ call.err = "ValueError"

NamedStateCalls == {"set_pure_state", "create_state"}
GivenName == last.arg.str[1]
\* the angles the six names stand for
NamedAngles ==
    CASE GivenName = "|0>" -> <<0, 0>>
      [] GivenName = "|1>" -> <<PI, 0>>
      [] GivenName = "|+>" -> <<PI \div 2, 0>>
      [] GivenName = "|->" -> <<PI \div 2, PI>>
      [] GivenName = "|+i>" -> <<PI \div 2, PI \div 2>>
      [] GivenName = "|-i>" -> <<PI \div 2, (3 * PI) \div 2>>
      [] OTHER -> <<>>

\* C12: set_pure_state and create_state with one of the six names leave
\* (theta, phi) at the angles of that name; with any other name they raise
\* ValueError, and a call that raises leaves theta, phi, the state vector,
\* the coefficients and the cache as they were.
C12_NamedAngles ==
    last.op \in NamedStateCalls =>
        /\ last.err = "none" => <<theta, phi>> = NamedAngles
        /\ NamedAngles = <<>> => last.err = "ValueError"
        /\ (last.op = "set_pure_state" /\ NamedAngles # <<>>) => last.err = "none"
C12_FailureLeavesState ==
    (last'.op \in NamedStateCalls /\ last'.err # "none") =>
        UNCHANGED <<theta, phi, state_vector, orbital_coeffs, density_cache, basis>>
MeshCalls == {"create_orbital_mesh", "create_bloch_state_mesh"}
MeshInputValid ==
    IF call.fn = "create_orbital_mesh" THEN IsValidKey(call.args[1])
    ELSE call.args[1][3] \in {"sp", "pp", "sd"}
SurfaceLevels == {i \in 1..Len(call.args[2]) : call.args[2][i] = "surface"}

\* C13: an extraction over valid input never fails because of a threshold:
\* it returns one object per threshold that gave a surface, in threshold
\* order, whatever the other thresholds gave.
C13_PerThresholdSkip ==
    (call.fn \in MeshCalls /\ MeshInputValid) =>
        /\ call.err = "none"
        /\ Len(call.out) = Cardinality(SurfaceLevels)
        /\ \A j \in 1..Len(call.out) :
              /\ call.out[j].level \in SurfaceLevels
              /\ call.out[j].iso = call.out[j].level - 1
        /\ \A j \in 1..(Len(call.out) - 1) : call.out[j].level < call.out[j + 1].level

\* C13: the first threshold raised, a later one gave a surface and its object
\* was returned.
C13_SkippedThenSurface ==
    /\ call.fn = "create_bloch_state_mesh"
    /\ MeshInputValid
    /\ Len(call.args[2]) = 3
    /\ call.args[2][1] = "ValueError"
    /\ call.args[2][2] = "no_faces"
    /\ call.args[2][3] = "surface"
    /\ Len(call.out) = 1

SpAnalysis == call.fn = "analyze_superposition" /\ call.args[3] = "sp"
\* cos^2(theta/2) and sin^2(theta/2) on the grid of theta
CosSqHalf(t) == CASE t = 0 -> COne [] t = PI \div 2 -> CHalf [] OTHER -> CZero
SinSqHalf(t) == CASE t = 0 -> CZero [] t = PI \div 2 -> CHalf [] OTHER -> COne

\* C14: in the sp basis the map is {1s: cos(theta/2), 2s: e^{i phi}
\* sin(theta/2)}, so P(1s) = cos^2(theta/2) and P(2s) = sin^2(theta/2)
\* whatever phi is; at theta = pi/2, phi = 0 both magnitudes are 1/sqrt(2).
C14_SpProbabilities ==
    SpAnalysis =>
        LET t == call.args[1]
            ph == call.args[2]
            out == call.out
        IN  /\ call.err = "none"
            /\ out.coefficients =
                   << <<(<<1, 0, 0>>), Cos(t \div 2)>>,
                      <<(<<2, 0, 0>>), CMul(ExpI(ph), Sin(t \div 2))>> >>
            /\ out.probabilities =
                   << <<(<<1, 0, 0>>), CosSqHalf(t)>>, <<(<<2, 0, 0>>), SinSqHalf(t)>> >>
            /\ (t = PI \div 2 /\ ph = 0) =>
                   /\ Abs(out.coefficients[1][2]) = CInvSqrt2
                   /\ Abs(out.coefficients[2][2]) = CInvSqrt2

\* C14: the sp state on the equator with a phase has P(1s) = P(2s) = 1/2.
C14_EquatorHalves ==
    /\ SpAnalysis
    /\ call.args[1] = PI \div 2
    /\ call.args[2] = 3
    /\ call.out.probabilities[1][2] = CHalf
    /\ call.out.probabilities[2][2] = CHalf

\* C15: in every state reached through the constructor and the mutators, for
\* each of the bases sp, pp and sd, the orbital coefficients satisfy
\* sum_i |c_i|^2 = 1 and analyze() reports normalized = true.
HasNaNCoefficient == \E i \in DOMAIN orbital_coeffs : orbital_coeffs[i][2] = CNaN
C15_Normalized ==
    basis \in Bases =>
        /\ TotalProb(orbital_coeffs) = COne
        /\ analyze_superposition(theta, phi, basis).val.normalized
C15_NaNCoefficients ==
    /\ last.op = "set_state_vector"
    /\ last.err = "none"
    /\ basis \in Bases
    /\ HasNaNCoefficient
    /\ ~analyze_superposition(theta, phi, basis).val.normalized

\* C16: from angles with theta in [0, pi] and phi in [0, 2 pi), every sequence
\* of apply_gate, apply_rotation, set_state_vector and set_pure_state calls
\* leaves the stored angles with theta in [0, pi] and phi in [0, 2 pi).
C16_AnglesInRange ==
    /\ theta \in 0..PI
    /\ phi \in 0..(TWO_PI - 1)
C16_AnglesNaN ==
    /\ last.op \in {"set_state_vector", "apply_gate", "apply_rotation"}
    /\ last.err = "none"
    /\ theta = NaN
    /\ phi = NaN


\* C17: at distance r = 10 each real-form 2p orbital has its largest |psi|
\* along the axis it is named after: (2,1,1) along +x, (2,1,-1) along +y and
\* (2,1,0) along +z, each strictly above its |psi| along the other two
\* positive axes; so no real-form orbital with m # 0 vanishes everywhere.
EvaluatedAt == call.fn = "hydrogen_orbital(x, y, z)" /\ call.err = "none"
PositiveAxes == {<<10, 0, 0>>, <<0, 10, 0>>, <<0, 0, 10>>}
NamedAxis(k) ==
    CASE k = <<2, 1, 1>> -> <<10, 0, 0>>
      [] k = <<2, 1, -1>> -> <<0, 10, 0>>
      [] k = <<2, 1, 0>> -> <<0, 0, 10>>
\* |a| > |b| for two values of one orbital at one radius
Exceeds(a, b) ==
    /\ a # PsiZero
    /\ \/ b = PsiZero
       \/ /\ a.R = b.R
          /\ a.Y.unit = b.Y.unit
          /\ AbsSq(a.Y.val)[1] > AbsSq(b.Y.val)[1]
OnNamedAxis ==
    /\ EvaluatedAt
    /\ call.args[1] \in {<<2, 1, 1>>, <<2, 1, -1>>, <<2, 1, 0>>}
    /\ call.args[2] = NamedAxis(call.args[1])
C17_LargestAlongNamedAxis ==
    OnNamedAxis =>
        \A pt \in PositiveAxes \ {call.args[2]} :
            LET k == call.args[1]
            IN  Exceeds(call.out, hydrogen_orbital_at(k[1], k[2], k[3], pt).val)
C17_TwoPyVanishes ==
    /\ OnNamedAxis
    /\ call.args[1] = <<2, 1, -1>>
    /\ call.out = PsiZero
    /\ \A pt \in AxisPoints(5) \cup AxisPoints(10) :
           hydrogen_orbital_at(2, 1, -1, pt).val = PsiZero

\* C18: hydrogen_orbital(1, 0, 0, x, y, z) depends only on
\* r = sqrt(x^2 + y^2 + z^2): it is N_10 e^(-r) Y_00, and at r = 5 its values
\* at (+-5,0,0), (0,+-5,0) and (0,0,+-5) are equal.
Radius(pt) ==
    CHOOSE r \in 0..10 : r * r = pt[1] * pt[1] + pt[2] * pt[2] + pt[3] * pt[3]
Y_00 == [unit |-> <<0>>, val |-> COne]
OneSEvaluated ==
    /\ EvaluatedAt
    /\ call.args[1] = <<1, 0, 0>>
    /\ call.args[2] # Origin
C18_SphericallySymmetric ==
    OneSEvaluated =>
        /\ call.out = [R |-> [coef |-> <<1, 1>>, norm |-> <<1, 0>>,
                              decay |-> <<Radius(call.args[2]), 1>>],
                       Y |-> Y_00]
        /\ \A pt \in AxisPoints(Radius(call.args[2])) :
               hydrogen_orbital_at(1, 0, 0, pt).val = call.out
        /\ \A pt \in AxisPoints(15 - Radius(call.args[2])) :
               hydrogen_orbital_at(1, 0, 0, pt).val # call.out
C18_OneSBelowOrigin ==
    /\ OneSEvaluated
    /\ call.args[2] = <<0, 0, -5>>
    /\ call.out.R.decay = <<5, 1>>
    /\ call.out = hydrogen_orbital_at(1, 0, 0, <<5, 0, 0>>).val

\* C19: at the origin, for every valid (n, l, m), hydrogen_orbital is 0 when
\* l > 0 and, when l = 0, it is the radial normalization constant N_n0 times
\* the constant harmonic Y_00 = 1/sqrt(4 pi).
AtOrigin == EvaluatedAt /\ call.args[2] = Origin
C19_OriginValue ==
    AtOrigin =>
        LET n == call.args[1][1]
            l == call.args[1][2]
        IN  /\ l > 0 => call.out = PsiZero
            /\ l = 0 => call.out = [R |-> norm_factor(n, 0), Y |-> Y_00]
C19_OneSAtOrigin ==
    /\ AtOrigin
    /\ call.args[1] = <<1, 0, 0>>
    /\ call.out.R = norm_factor(1, 0)
    /\ call.out.Y = Y_00
\* C19 as stated: when l = 0 the value is the radial normalization constant
\* itself
Unity == [unit |-> <<>>, val |-> COne]
C19_OriginRadialConstant ==
    AtOrigin =>
        LET n == call.args[1][1]
            l == call.args[1][2]
        IN  /\ l > 0 => call.out = PsiZero
            /\ l = 0 => call.out = [R |-> norm_factor(n, 0), Y |-> Unity]

\* C20: at r = 0, for scalar r and for every zero entry of an array r,
\* radial_wavefunction returns 0 when l > 0 and N when l = 0, and for l = 0
\* and n in 1..7 that value is the limit of N e^(-rho/2) L_{n-1}^1(rho) as
\* r -> 0, which is N L_{n-1}^1(0).
RadialEvaluated == call.fn = "radial_wavefunction(r)" /\ call.err = "none"
RadialLimit(n) ==
    [coef |-> generalized_laguerre(n - 1, 1, <<0, 1>>), norm |-> <<n, 0>>,
     decay |-> <<0, 1>>]
C20_ReturnsAtZero ==
    RadialEvaluated =>
        LET n == call.args[1]
            l == call.args[2]
            r == call.args[3].at
        IN  \A i \in 1..Len(r) :
                r[i] = 0 =>
                    /\ l > 0 => call.out[i] = RadialZero
                    /\ l = 0 => call.out[i] = norm_factor(n, 0)
C20_ZeroRadius ==
    /\ C20_ReturnsAtZero
    /\ RadialEvaluated =>
           LET n == call.args[1]
               l == call.args[2]
               r == call.args[3].at
           IN  \A i \in 1..Len(r) :
                   (r[i] = 0 /\ l = 0 /\ n \in 1..7) => call.out[i] = RadialLimit(n)
C20_TwoSBelowLimit ==
    /\ RadialEvaluated
    /\ call.args = <<2, 0, [scalar |-> FALSE, at |-> <<0, 5, 0>>]>>
    /\ call.out[1] = norm_factor(2, 0)
    /\ call.out[3] = norm_factor(2, 0)
    /\ RadialLimit(2).coef = <<2, 1>>

(***************************************************************************)
(* bloch_orbital_mapper.py: the caller's array.  Here `call` is the        *)
(* caller's side of set_state_vector(v): args = <<kind of v, v as passed,  *)
(* v as it is now>>, out = <<TRUE>> while self._state_vector is the same   *)
(* object as v.  np.asarray(v, dtype=complex) is v itself when v is a      *)
(* complex ndarray and a new array when v is a list.                       *)
(***************************************************************************)
ArrayKinds == {"list", "complex_array"}
Caller(kind, passed, now, shared) ==
    [fn |-> "caller", args |-> <<kind, passed, now>>, err |-> "none",
     out |-> <<shared>>, trace |-> <<>>]
SharesArray == call.fn = "caller" /\ call.out = <<TRUE>>

\* set_state_vector(v) with v of the given kind: `state_vector /= norm`
\* divides in place, and the result is stored without a copy
set_state_vector_of(kind, v) ==
    \E outcome \in {NormalizedOutcome[v]} :
        LET angles == outcome.angles
            coeffs == CoeffsOutcome[angles[1]][angles[2]][basis]
            same_object == kind = "complex_array"
        IN  /\ outcome.has_norm
            /\ state_vector' = outcome.normalized
            /\ theta' = angles[1]
            /\ phi' = angles[2]
            /\ IF coeffs.err = "none"
               THEN /\ orbital_coeffs' = coeffs.val
                    /\ density_cache' = <<>>
               ELSE UNCHANGED <<orbital_coeffs, density_cache>>
            /\ last' = Last("set_state_vector", coeffs.err)
            /\ gate_seq' = 0
            /\ call' = Caller(kind, v,
                              IF same_object THEN outcome.normalized ELSE v,
                              same_object)
            /\ UNCHANGED basis

\* v[i] = x, by the caller, after the call
caller_writes(i, x) ==
    /\ call.fn = "caller"
    /\ call' = [call EXCEPT !.args[3][i] = x]
    /\ state_vector' = IF SharesArray THEN [state_vector EXCEPT ![i] = x]
                       ELSE state_vector
    /\ last' = Last("caller_writes", "none")
    /\ UNCHANGED <<theta, phi, basis, orbital_coeffs, density_cache, gate_seq>>

\* w = state.state_vector; w[i] = x: the property returns a copy
write_to_property_value(i, x) ==
    /\ last' = Answer("write_to_property_value", <<[state_vector EXCEPT ![i] = x]>>)
    /\ UNCHANGED <<theta, phi, basis, state_vector, orbital_coeffs,
                   density_cache, gate_seq, call>>

NextArrays ==
    \/ \E kind \in ArrayKinds, v \in StateVectorInputs \cup CardinalVectorInputs :
          set_state_vector_of(kind, v)
    \/ \E i \in 1..2, x \in {CZero, COne} : caller_writes(i, x)
    \/ \E i \in 1..2, x \in {CZero} : write_to_property_value(i, x)
    \/ \E u \in BOOLEAN : calculate_density_grid(<<>>, <<>>, u)

SpecArrays == InitCalls /\ [][NextArrays]_vars

(***************************************************************************)
(* Properties of the queries of BlochOrbitalState.                         *)
(***************************************************************************)
Asked(op) == last.op = op /\ last.err = "none"
\* the positions of the coefficients of largest magnitude
Largest(coeffs) ==
    {i \in 1..Len(coeffs) :
        \A j \in 1..Len(coeffs) :
            ~GreaterThan(AbsCoeff(coeffs[j][2]), AbsCoeff(coeffs[i][2]))}
FirstLargest(coeffs) ==
    CHOOSE i \in Largest(coeffs) : \A j \in Largest(coeffs) : i <= j

\* C21: get_dominant_orbital returns a pair in every state the mutators
\* reach, the pair is an item of the coefficient map whose magnitude no other
\* item exceeds, and among items of equal largest magnitude it is the first
\* in the map's order.
C21_DominantIsFirstLargest ==
    Asked("get_dominant_orbital") =>
        /\ last.ret # <<>>
        /\ last.ret[1] = orbital_coeffs[FirstLargest(orbital_coeffs)]

\* get_dominant_orbital was asked in a state whose coefficients are all nan,
\* and it returned None
C21_AbsentOnNaN ==
    /\ Asked("get_dominant_orbital")
    /\ \A i \in 1..Len(orbital_coeffs) : orbital_coeffs[i][2] = CNaN
    /\ last.ret = <<>>

\* where the coefficients are numbers, the first of the largest is returned
C21_DominantWhereDefined ==
    (Asked("get_dominant_orbital") /\ ~HasNaNCoefficient) =>
        /\ last.ret # <<>>
        /\ last.ret[1] = orbital_coeffs[FirstLargest(orbital_coeffs)]

\* two items share the largest magnitude and the first of them was returned
C21_TieReturnedFirst ==
    /\ Asked("get_dominant_orbital")
    /\ ~HasNaNCoefficient
    /\ Cardinality(Largest(orbital_coeffs)) > 1
    /\ last.ret = <<orbital_coeffs[FirstLargest(orbital_coeffs)]>>

\* the named state at the Bloch point (t, p), if there is one
CardinalNames(t, p) ==
    {name \in DOMAIN BLOCH_PURE_STATES :
        /\ BLOCH_PURE_STATES[name][1] = t
        /\ t \in {0, PI} \/ BLOCH_PURE_STATES[name][2] = p}

\* C22: whenever the state sits at one of the six cardinal Bloch points,
\* however it was reached, _get_state_label returns that state's label; it
\* returns the generic label only away from the six points.
C22_CardinalLabelled ==
    Asked("_get_state_label") =>
        /\ \A name \in CardinalNames(theta, phi) : last.ret = <<name>>
        /\ last.ret = <<GenericLabel>> => CardinalNames(theta, phi) = {}

\* the state sits at |->, stored with a global phase, and got the generic label
C22_MinusUnrecognized ==
    /\ Asked("_get_state_label")
    /\ theta = PI \div 2 /\ phi = PI
    /\ state_vector = <<CMul(CWPow(3), CInvSqrt2), CNeg(CMul(CWPow(3), CInvSqrt2))>>
    /\ last.ret = <<GenericLabel>>

\* with the stored vector as the angles give it, every cardinal point is
\* labelled and only the other points are generic
C22_LabelOfAngleForm ==
    (Asked("_get_state_label") /\ state_vector = StateVectorOutcome[theta][phi]
        /\ theta # NaN) =>
        /\ \A name \in CardinalNames(theta, phi) : last.ret = <<name>>
        /\ last.ret = <<GenericLabel>> => CardinalNames(theta, phi) = {}

\* C26: in every reachable state a non-empty density cache holds the density
\* of the state's current orbital coefficients (on the cached lattice), and
\* the grid calculate_density_grid returns is the grid left in the cache.
C26_CacheCoherent ==
    /\ density_cache # <<>> =>
          density_cache[1] = DensityGrid(orbital_coeffs, density_cache[1].resolution,
                                         density_cache[1].extent)
    /\ Asked("calculate_density_grid") => last.ret = density_cache

\* get_isosurface_values found the cache empty on the equator and filled it
C26_FilledByIsosurfaceQuery ==
    /\ Asked("get_isosurface_values")
    /\ ~last.had_cache
    /\ density_cache # <<>>
    /\ theta = PI \div 2
    /\ density_cache[1].density # DensityGrid(CoeffsOutcome[0][0][basis].val, 2, 20).density

\* the six cardinal Bloch points
AtCardinalPoint(t, p) == CardinalNames(t, p) # {}
\* the rotation of the Bloch sphere a gate's unitary stands for
Rotated(g, v) ==
    CASE g = <<"I">> -> v
      [] g = <<"X">> -> <<v[1], CNeg(v[2]), CNeg(v[3])>>
      [] g = <<"Y">> -> <<CNeg(v[1]), v[2], CNeg(v[3])>>
      [] g = <<"Z">> -> <<CNeg(v[1]), CNeg(v[2]), v[3]>>
      [] g = <<"H">> -> <<v[3], CNeg(v[2]), v[1]>>
      [] g = <<"S">> -> <<CNeg(v[2]), v[1], v[3]>>
CardinalGates == {<<"I">>, <<"X">>, <<"Y">>, <<"Z">>, <<"H">>, <<"S">>}
SelfInverseGates == {<<"X">>, <<"Y">>, <<"Z">>, <<"H">>}
\* apply_gate has just been applied, with one of the six gates, to a
\* cardinal state
GateOnCardinal ==
    /\ last'.op = "apply_gate" /\ last'.err = "none"
    /\ last'.arg.is_str /\ last'.arg.str \in CardinalGates
    /\ AtCardinalPoint(theta, phi)

SliceAsked == last'.op = "calculate_slice"

\* C28: calculate_slice returns a slice for the planes xy, xz, yz and fails
\* for every other plane name, and either way it leaves theta, phi, basis, the
\* state vector, the coefficients and the density cache as they were; the
\* slice is computed from the coefficients, whatever the cache holds.
C28_SliceIsPureQuery ==
    [][SliceAsked =>
        /\ UNCHANGED <<theta, phi, basis, state_vector, orbital_coeffs, density_cache>>
        /\ IF last'.arg.str[1] \in Planes
           THEN /\ last'.err = "none"
                /\ last'.ret[1].density =
                      Slice(orbital_coeffs, last'.arg.str[1], 2, 20).density
           ELSE last'.err = "ValueError" /\ last'.ret = <<>>
      ]_vars

\* calculate_slice failed on an unknown plane while a grid was cached
C28_UnknownPlaneWithCache ==
    /\ last.op = "calculate_slice"
    /\ last.err = "ValueError"
    /\ last.arg = NameArg("zx")
    /\ last.had_cache
    /\ density_cache # <<>>

\* C29: set_state_vector(v) leaves the caller's v as it was passed, and a
\* later write by the caller, to v or to a vector read from the state_vector
\* property, changes nothing of the state.
C29_CallerWritesIsolated ==
    [][/\ last'.op = "set_state_vector" => call'.args[3] = call'.args[2]
       /\ last'.op \in {"caller_writes", "write_to_property_value"} =>
             UNCHANGED <<state_vector, theta, phi, orbital_coeffs, density_cache>>
      ]_vars

\* the caller wrote 0 into the complex array passed to set_state_vector, and
\* the stored vector holds that 0 while the angles are those of before
C29_StoredVectorFollowsWrite ==
    /\ last.op = "caller_writes"
    /\ call.args[1] = "complex_array"
    /\ state_vector = call.args[3]
    /\ state_vector[1] = CZero
    /\ theta = PI \div 2

\* a list argument is never changed and never shared, and a write to the
\* value of the state_vector property changes nothing
C29_ListAndPropertyIsolated ==
    [][/\ (last'.op = "set_state_vector" /\ call'.args[1] = "list") =>
             call'.args[3] = call'.args[2]
       /\ ((last'.op = "caller_writes" /\ call.args[1] = "list")
             \/ last'.op = "write_to_property_value") =>
             UNCHANGED <<state_vector, theta, phi, orbital_coeffs, density_cache>>
      ]_vars

(***************************************************************************)
(* Properties of the colour lookup and of the coefficient-form gates.      *)
(***************************************************************************)
ColorAsked == call.fn = "get_orbital_color" /\ call.args[2] = <<>>

\* C23: without a phase, get_orbital_color(l) returns the colour of l's
\* orbital letter for l in 0..6 and the neutral gray for every other l.
C23_ColorOrGray ==
    ColorAsked =>
        IF call.args[1] \in 0..6
        THEN call.out = ORBITAL_COLORS[ORBITAL_LETTERS[call.args[1]]]
        ELSE call.out = NeutralGray

\* get_orbital_color(7) returned the colour of the s orbitals
C23_SevenIsBlue ==
    /\ ColorAsked
    /\ call.args[1] = 7
    /\ call.out = ORBITAL_COLORS["s"]

\* inside the table the colour of the letter is returned
C23_ColorInsideTable ==
    (ColorAsked /\ call.args[1] \in 0..6) =>
        call.out = ORBITAL_COLORS[ORBITAL_LETTERS[call.args[1]]]

OrbitalGateCalled == call.fn = "apply_gate_to_orbitals"

\* C24: apply_gate_to_orbitals with a basis name outside {sp, pp, sd} fails
\* with an error and returns no coefficient map.
C24_UnknownBasisFails ==
    (OrbitalGateCalled /\ call.args[4] \notin Bases) =>
        call.err = "ValueError" /\ call.out = <<>>

\* a call with the basis 'xx' and a known gate returned the map of the 'sd' basis
C24_UnknownBasisTakenAsSd ==
    /\ OrbitalGateCalled
    /\ call.args[4] = "xx"
    /\ call.args[5] = StrGate(<<"X">>)
    /\ call.err = "none"
    /\ KeysOf(call.out) = {<<1, 0, 0>>, <<3, 2, 0>>}

\* what the Bloch-angle path gives for the same call
BlochPath ==
    CoeffsOutcome[GateOutcome[call.args[5]][call.args[1]][call.args[2]].angles.val[1]]
                 [GateOutcome[call.args[5]][call.args[1]][call.args[2]].angles.val[2]]
                 [call.args[4]].val
Keys(coeffs) == [i \in 1..Len(coeffs) |-> coeffs[i][1]]
Probabilities(coeffs) == [i \in 1..Len(coeffs) |-> AbsSq(coeffs[i][2])]
\* a call in a supported basis, on that basis' own map, with a gate that exists
SupportedGateCall ==
    /\ OrbitalGateCalled
    /\ call.args[3] = call.args[4]
    /\ call.args[4] \in Bases
    /\ call.err = "none"

\* C25: for the bases sp, pp, sd, every (theta, phi) and every gate,
\* apply_gate_to_orbitals on the map of (theta, phi) has the keys and the
\* probabilities of the map of apply_gate_to_bloch(theta, phi, gate); for pp
\* the coefficients are equal; with the gate I the input map comes back.
C25_PathsAgree ==
    SupportedGateCall =>
        /\ Keys(call.out) = Keys(BlochPath)
        /\ Probabilities(call.out) = Probabilities(BlochPath)
        /\ call.args[4] = "pp" => call.out = BlochPath
        /\ call.args[5] = StrGate(<<"I">>) =>
              call.out = CoeffsOutcome[call.args[1]][call.args[2]][call.args[4]].val

\* the gate H was applied to the pp map of |+i>, where the x and y
\* coefficients differ, and the map of the Bloch-angle path came back
C25_HadamardOnPp ==
    /\ SupportedGateCall
    /\ call.args[4] = "pp"
    /\ call.args[5] = StrGate(<<"H">>)
    /\ call.args[1] = PI \div 2 /\ call.args[2] = PI \div 2
    /\ call.out = BlochPath

(***************************************************************************)
(* Properties of create_transfer_batches.                                  *)
(***************************************************************************)
BatchesMade == call.fn = "create_transfer_batches"
RECURSIVE CountOf(_, _)
\* the packets of frequency f in a list of samples
CountOf(samples, f) ==
    IF samples = <<>> THEN 0
    ELSE (IF Head(samples).frequency = f THEN Head(samples).count ELSE 0)
         + CountOf(Tail(samples), f)
Total(samples) == CountOf(samples, 1) + CountOf(samples, 2)
RECURSIVE CountOverBatches(_, _)
CountOverBatches(batches, f) ==
    IF batches = <<>> THEN 0
    ELSE CountOf(Head(batches), f) + CountOverBatches(Tail(batches), f)

\* C30: in every batch the packets of one frequency total at most 5 and the
\* packets of the batch total at most 30; no batch is empty; the counts over
\* all batches are the counts of the input; the call returns.
C30_BatchLimits ==
    BatchesMade =>
        /\ call.err = "none"
        /\ \A i \in 1..Len(call.out) :
              /\ call.out[i] # <<>>
              /\ Total(call.out[i]) <= MAX_TOTAL_PER_BATCH
              /\ \A f \in {1, 2} : CountOf(call.out[i], f) <= MAX_PER_FREQUENCY
        /\ \A f \in {1, 2} :
              CountOverBatches(call.out, f) = CountOf(call.args[1], f)

\* a single sample of 12 packets came back as one batch holding all 12
C30_TwelveInOneBatch ==
    /\ BatchesMade
    /\ call.args[1] = <<[frequency |-> 1, count |-> 12]>>
    /\ Len(call.out) = 1
    /\ CountOf(call.out[1], 1) = 12

\* the limit on the whole batch, the non-empty batches and the conservation
\* of the counts
C30_TotalLimitAndConservation ==
    BatchesMade =>
        /\ call.err = "none"
        /\ \A i \in 1..Len(call.out) :
              /\ call.out[i] # <<>>
              /\ Total(call.out[i]) <= MAX_TOTAL_PER_BATCH
              /\ \A j \in 1..Len(call.out[i]) :
                    call.out[i][j].count \in 1..MAX_PER_FREQUENCY
        /\ \A f \in {1, 2} :
              CountOverBatches(call.out, f) = CountOf(call.args[1], f)

\* a composition of more than 30 packets came back in more than one batch
C30_SplitByTotal ==
    /\ BatchesMade
    /\ Total(call.args[1]) > MAX_TOTAL_PER_BATCH
    /\ Len(call.out) > 1

====
